---- MODULE Spec2Model ----
(***************************************************************************)
(* Namespace operations of fs/f2fs/namei.c: create, mkdir, link, unlink,   *)
(* rmdir, tmpfile/whiteout creation, rename and cross-rename, stepped      *)
(* around the filesystem-wide ordering lock (f2fs_lock_op/f2fs_unlock_op). *)
(*                                                                         *)
(* A directory's entry block is a set of <<name, ino>> pairs, its `..`     *)
(* entry is dotdot[dir].  Helpers of dir.c, inode.c, node.c and            *)
(* checkpoint.c that namei.c calls are modelled from the design document   *)
(* (sections 3, 4.2-4.5, 6).                                               *)
(*                                                                         *)
(* Callers are the VFS: a call is made only with the arguments the VFS     *)
(* lets through (positive/negative dentries, type-compatible rename        *)
(* victims, no rename of a directory below itself).  dentry->d_inode is    *)
(* read from the directory, or is that of a stale dentry where a handler   *)
(* looks the name up itself.  In a fresh filesystem no inode carries an    *)
(* encryption policy (the symlink call takes the encryption as an          *)
(* argument), so the policy checks of lines 242-244, 686-691 and 844-850   *)
(* pass; they are exercised in an image with encrypted directories,        *)
(* SpecPol.                                                                *)
(*                                                                         *)
(* The dentry-cache name comparison (f2fs_d_compare) is a pure function of *)
(* two names; it is stepped under a specification of its own, SpecCmp.     *)
(***************************************************************************)
EXTENDS Integers, FiniteSets, Sequences, TLC

\* ---------------------------------------------------------------- bounds

\* inode identifiers the allocator can hand out (the root included)
MaxIno == 5
\* distinct entry names
NNames == 2

\* calls issued in one run
MaxCalls == 4
\* longest name handed to the name comparison
MaxNameLen == 3
\* s_blocksize and PAGE_SIZE (4096, scaled down), and the largest length an
\* encrypted-symlink container is found to store (0xffff, scaled down)
BlockSize == 8
MaxStoredLen == 12
\* width of the unsigned int a name hash is cut to (32, scaled down so that
\* the hash of a name of MaxNameLen bytes exceeds it)
HashBits == 16

\* "no inode": a NULL d_inode, f2fs_inode_by_name() finding nothing
NoIno == 0
\* no name recorded in a node page: the root, a temp file
NoName == 0
\* ceilings of a link count a run is made with (0xffffffff in f2fs.h, scaled
\* down so that a directory can reach it)
LinkCeilings == {3, 4}

Ino == 1..MaxIno
Names == 1..NNames
RootIno == CHOOSE i \in Ino : \A j \in Ino : i <= j

Tasks == {"t1", "t2"}

VARIABLES
    i_mode,      \* inode -> "none" | "reg" | "dir" | "chr" | "lnk"   (i_mode)
    i_nlink,     \* inode -> link count                       (inode->i_nlink)
    dentries,    \* directory -> set of <<name, ino>> entries
    dotdot,      \* directory -> ino of its `..` entry
    nid,         \* identifier -> "free" | "alloc" | "done"   (alloc_nid state)
    orphans,     \* orphan registry: set of inode ids
    n_orphans,   \* orphan slots in use (reserved or holding an id)
    visible,     \* inodes handed to the dentry cache (d_instantiate, d_tmpfile)
    i_name,      \* inode -> the name its node page records (i_name)
    enc_name,    \* inodes whose name is flagged encrypted (file_enc_name)
    i_crypt,     \* inode -> its encryption policy, "none" when not encrypted
    inline_dots, \* inodes carrying FI_INLINE_DOTS
    dot_entries, \* directory that carries or carried FI_INLINE_DOTS -> the
                 \* sequence of its explicit <<".", ino>>, <<"..", ino>> entries
    cp_rwsem,    \* holder of the ordering lock, or "none"
    pc,          \* task -> position in its handler
    op,          \* task -> arguments and locals of the running handler
    tasks,       \* the tasks that issue calls in this run
    ncalls,      \* calls issued so far
    F2FS_LINK_MAX, \* the link-count ceiling of this run
    dirsync,     \* the inodes IS_DIRSYNC holds of (MS_SYNCHRONOUS, MS_DIRSYNC
                 \* of the mount, S_SYNC, S_DIRSYNC of the inode)
    dcmp,        \* arguments and locals of a running f2fs_d_compare
    dhash,       \* arguments and locals of a running f2fs_d_hash
    flink        \* arguments and locals of a running
                 \* f2fs_encrypted_follow_link

\* what no handler writes
fixed == <<tasks, F2FS_LINK_MAX, dirsync, dcmp, dhash, flink>>

vars == <<i_mode, i_nlink, dentries, dotdot, nid, orphans, n_orphans, visible,
          i_name, enc_name, i_crypt, inline_dots, dot_entries, cp_rwsem, pc,
          op, ncalls, fixed>>

\* ------------------------------------------------------- filesystem state

\* the filesystem state as one value: what helpers read and return
Cur ==
    [i_mode |-> i_mode, i_nlink |-> i_nlink, dentries |-> dentries,
     dotdot |-> dotdot, nid |-> nid, orphans |-> orphans,
     n_orphans |-> n_orphans, visible |-> visible,
     i_name |-> i_name, enc_name |-> enc_name, i_crypt |-> i_crypt,
     inline_dots |-> inline_dots, dot_entries |-> dot_entries]

SetFs(fs) ==
    /\ i_mode' = fs.i_mode
    /\ i_nlink' = fs.i_nlink
    /\ dentries' = fs.dentries
    /\ dotdot' = fs.dotdot
    /\ nid' = fs.nid
    /\ orphans' = fs.orphans
    /\ n_orphans' = fs.n_orphans
    /\ visible' = fs.visible
    /\ i_name' = fs.i_name
    /\ enc_name' = fs.enc_name
    /\ i_crypt' = fs.i_crypt
    /\ inline_dots' = fs.inline_dots
    /\ dot_entries' = fs.dot_entries

S_ISDIR(fs, i) == fs.i_mode[i] = "dir"

\* entries of dir with this name
EntriesNamed(fs, dir, name) == {e \in fs.dentries[dir] : e[1] = name}

\* f2fs_find_entry: an entry of that name, or none
f2fs_find_entry(fs, dir, name) == EntriesNamed(fs, dir, name) # {}

\* f2fs_inode_by_name / the ino a lookup resolves to (NoIno: negative)
f2fs_inode_by_name(fs, dir, name) ==
    IF EntriesNamed(fs, dir, name) = {} THEN NoIno
    ELSE (CHOOSE e \in EntriesNamed(fs, dir, name) : TRUE)[2]

\* f2fs_empty_dir: nothing but the two dot entries
f2fs_empty_dir(fs, i) == fs.dentries[i] = {}

\* f2fs_parent_dir: the `..` entry of a directory, absent when corrupted
f2fs_parent_dir(fs, i) == fs.dotdot[i] # NoIno

inc_nlink(fs, i) == [fs EXCEPT !.i_nlink[i] = @ + 1]

drop_nlink(fs, i) == [fs EXCEPT !.i_nlink[i] = IF @ > 0 THEN @ - 1 ELSE 0]

\* acquire_orphan_inode succeeded: one more slot in use
acquire_orphan_inode(fs) == [fs EXCEPT !.n_orphans = @ + 1]

\* release_orphan_inode: give the reserved slot back
release_orphan_inode(fs) == [fs EXCEPT !.n_orphans = @ - 1]

\* add_orphan_inode: the reserved slot now holds ino
add_orphan_inode(fs, i) == [fs EXCEPT !.orphans = @ \cup {i}]

\* remove_orphan_inode: drop ino and its slot
remove_orphan_inode(fs, i) ==
    IF i \in fs.orphans
    THEN [fs EXCEPT !.orphans = @ \ {i}, !.n_orphans = @ - 1]
    ELSE fs

\* ------------------------------------------ helpers of dir.c and inode.c

\* new_inode() + alloc_nid() + insert_inode_locked(): the in-core inode of the
\* identifier ino, link count 1, identifier allocated but not yet finalized
new_inode(fs, ino, mode) ==
    [fs EXCEPT !.i_mode[ino] = mode, !.i_nlink[ino] = 1, !.nid[ino] = "alloc",
               !.dentries[ino] = {}, !.dotdot[ino] = NoIno]

\* alloc_nid: the first free identifier, NoIno when there is none
alloc_nid(fs) ==
    IF \E i \in Ino : fs.nid[i] = "free"
    THEN CHOOSE i \in Ino : fs.nid[i] = "free" /\ \A j \in Ino : fs.nid[j] = "free" => i <= j
    ELSE NoIno

\* alloc_nid_done: finalize the identifier with the allocator
alloc_nid_done(fs, ino) == [fs EXCEPT !.nid[ino] = "done"]

\* __f2fs_add_link succeeded: the entry is in dir.  inc_link is FI_INC_LINK of
\* the inode, is_new its FI_NEW_INODE (init_inode_metadata, make_empty_dir and
\* update_parent_metadata of dir.c)
f2fs_add_link(fs, dir, name, ino, inc_link, is_new) ==
    LET f1 == [fs EXCEPT !.dentries[dir] = @ \cup {<<name, ino>>},
                         !.i_name[ino] = name]
        f2 == IF is_new /\ S_ISDIR(fs, ino)
              THEN [f1 EXCEPT !.dotdot[ino] = dir]
              ELSE f1
        f3 == IF inc_link
              THEN inc_nlink(IF f2.i_nlink[ino] = 0
                             THEN remove_orphan_inode(f2, ino) ELSE f2, ino)
              ELSE f2
    IN  IF is_new /\ S_ISDIR(fs, ino) THEN inc_nlink(f3, dir) ELSE f3

\* update_dent_inode(inode, to, name): the node page of inode records name,
\* unless the name of `to` is flagged encrypted (nothing is done, 0 is
\* returned) or the node page cannot be read (read: it can)
update_dent_inode(fs, inode, to, name, read) ==
    IF to \in fs.enc_name THEN [fs |-> fs, err |-> "0"]
    ELSE IF read THEN [fs |-> [fs EXCEPT !.i_name[inode] = name], err |-> "0"]
    ELSE [fs |-> fs, err |-> "EIO"]

\* if (file_enc_name(from)) file_set_enc_name(to)
propagate_enc_name(fs, from, to) ==
    IF from \in fs.enc_name THEN [fs EXCEPT !.enc_name = @ \cup {to}] ELSE fs

\* f2fs_encrypted_inode: the inode carries an encryption policy
f2fs_encrypted_inode(fs, i) == fs.i_crypt[i] # "none"

\* f2fs_may_encrypt: the types that can be encrypted
f2fs_may_encrypt(mode) == mode \in {"reg", "dir", "lnk"}

\* f2fs_is_child_context_consistent_with_parent: no restriction under an
\* unencrypted parent; under an encrypted one the child shares its policy
f2fs_is_child_context_consistent_with_parent(fs, parent, child) ==
    \/ ~f2fs_encrypted_inode(fs, parent)
    \/ fs.i_crypt[child] = fs.i_crypt[parent]

\* f2fs_set_link: repoint an existing entry of dir at inode
f2fs_set_link(fs, dir, de, inode) ==
    [fs EXCEPT !.dentries[dir] = (@ \ {de}) \cup {<<de[1], inode>>}]

\* f2fs_set_link on the `..` entry of a directory
f2fs_set_dotdot(fs, inode, parent) == [fs EXCEPT !.dotdot[inode] = parent]

\* f2fs_delete_entry: remove entry de of dir; with an inode given, drop the
\* link counts (f2fs_drop_nlink) and consume the reserved orphan slot
f2fs_delete_entry(fs, dir, de, inode) ==
    LET f1 == [fs EXCEPT !.dentries[dir] = @ \ {de}]
    IN  IF inode = NoIno THEN f1
        ELSE LET f2 == IF S_ISDIR(fs, inode) THEN drop_nlink(f1, dir) ELSE f1
                 f3 == drop_nlink(f2, inode)
                 f4 == IF S_ISDIR(fs, inode) THEN drop_nlink(f3, inode) ELSE f3
             IN  IF f4.i_nlink[inode] = 0
                 THEN add_orphan_inode(f4, inode)
                 ELSE release_orphan_inode(f4)

\* the inode object is gone: iput of a bad or unlinked inode
drop_inode(fs, ino) ==
    [fs EXCEPT !.i_mode[ino] = "none", !.i_nlink[ino] = 0, !.nid[ino] = "free",
               !.dentries[ino] = {}, !.dotdot[ino] = NoIno,
               !.visible = @ \ {ino}, !.i_name[ino] = NoName,
               !.enc_name = @ \ {ino}, !.i_crypt[ino] = "none",
               !.inline_dots = @ \ {ino},
               !.dot_entries[ino] = <<>>]

\* handle_failed_inode: clear the link count, mark the inode bad, flag its
\* identifier for release, drop it (the caller's lock hold ends here)
handle_failed_inode(fs, ino) == drop_inode(fs, ino)

\* d_instantiate_new / d_instantiate / d_tmpfile: the inode becomes visible
d_instantiate(fs, ino) == [fs EXCEPT !.visible = @ \cup {ino}]

\* --------------------------------------------------------------- handlers

NoPre == [none |-> TRUE]

NoOp ==
    [kind |-> "none", dir |-> NoIno, name |-> NoIno, new_dir |-> NoIno,
     new_name |-> NoIno, flags |-> {}, enc |-> FALSE, inode |-> NoIno,
     old_inode |-> NoIno,
     new_inode |-> NoIno, whiteout |-> NoIno, err |-> "0", fault |-> "none",
     holds |-> 0, mut |-> {}, flush |-> {}, pre |-> NoPre]

\* IS_DIRSYNC(inode): updates of this directory are to be synchronous
IS_DIRSYNC(i) == i \in dirsync

\* the caller of o issues a blocking flush: what it flushes, and whether it
\* holds the ordering lock then (holder: the holder of the lock at the call)
blocking_flush(t, o, what, holder) ==
    [o EXCEPT !.flush = @ \cup {<<what, holder = t>>}]

\* a directory sync that looks at the first directory only
f2fs_sync_fs_first_dir(t, o, dirs, holder) ==
    IF IS_DIRSYNC(dirs[1])
    THEN blocking_flush(t, o, "f2fs_sync_fs", holder) ELSE o

\* if (IS_DIRSYNC(dir)) f2fs_sync_fs(sbi->sb, 1), and for the renames
\* if (IS_DIRSYNC(old_dir) || IS_DIRSYNC(new_dir)) f2fs_sync_fs(sbi->sb, 1)
f2fs_sync_fs(t, o, dirs, holder) ==
    IF \E k \in DOMAIN dirs : IS_DIRSYNC(dirs[k])
    THEN blocking_flush(t, o, "f2fs_sync_fs", holder) ELSE o

\* a directory callers can reach: the root, or a directory some entry names
\* and a lookup has handed out (lines 347-351)
LiveDir(fs, d) ==
    /\ S_ISDIR(fs, d)
    /\ d \notin fs.inline_dots
    /\ d = RootIno \/ \E p \in Ino : \E e \in fs.dentries[p] : e[2] = d

\* another running call works on this name (the VFS runs one call per name)
Busy(t, dir, name) ==
    \E u \in tasks \ {t} :
        /\ pc[u] # "idle"
        /\ \/ op[u].dir = dir /\ op[u].name = name
           \/ op[u].new_dir = dir /\ op[u].new_name = name

\* a change of entries, of the orphan registry, or of the link count of an
\* inode that exists before and after
NsChanged(f, g) ==
    \/ f.dentries # g.dentries
    \/ f.dotdot # g.dotdot
    \/ f.orphans # g.orphans
    \/ \E i \in Ino : /\ f.i_mode[i] # "none" /\ g.i_mode[i] # "none"
                      /\ f.i_nlink[i] # g.i_nlink[i]

\* one step of task t: the new filesystem state, position, locals and lock
\* holder.  op.mut records where the call changed the namespace: in its n-th
\* hold of the lock ("held"), or outside any hold (the position it was at)
Step(t, fs, npc, nop, holder) ==
    /\ SetFs(fs)
    /\ pc' = [pc EXCEPT ![t] = npc]
    /\ op' = [op EXCEPT ![t] =
                [nop EXCEPT !.mut =
                    IF NsChanged(Cur, fs)
                    THEN @ \cup {<<nop.holds,
                                   IF cp_rwsem = t THEN "held" ELSE pc[t]>>}
                    ELSE @]]
    /\ cp_rwsem' = holder
    /\ ncalls' = IF pc[t] = "idle" THEN ncalls + 1 ELSE ncalls
    /\ UNCHANGED fixed

\* the handler was called: its arguments, and the state it was called in
Call(t, npc, nop) ==
    /\ Step(t, Cur, npc, [nop EXCEPT !.pre = Cur], cp_rwsem)

\* an inode with no link left that no entry names
Unlinked(fs, i) ==
    /\ i # NoIno
    /\ fs.i_mode[i] # "none"
    /\ fs.i_nlink[i] = 0
    /\ \A p \in Ino : \A e \in fs.dentries[p] : e[2] # i

\* f2fs_evict_inode of an unlinked inode when its last reference is dropped:
\* the inode, its orphan entry and its identifier are released
f2fs_evict_inode(fs, i) ==
    IF Unlinked(fs, i) THEN drop_inode(remove_orphan_inode(fs, i), i) ELSE fs

\* the handler returned and the VFS drops its references: the inodes the call
\* left unlinked are evicted (an O_TMPFILE file is closed before the next call)
Return(t) ==
    /\ pc[t] = "ret"
    /\ LET o == op[t]
           f1 == f2fs_evict_inode(Cur, o.inode)
           f2 == f2fs_evict_inode(f1, o.new_inode)
           f3 == f2fs_evict_inode(f2, o.whiteout)
       IN  /\ SetFs(f3)
           /\ pc' = [pc EXCEPT ![t] = "idle"]
           /\ op' = [op EXCEPT ![t] = NoOp]
           /\ UNCHANGED <<cp_rwsem, ncalls, fixed>>

\* f2fs_lock_op: take the ordering lock, waiting while it is held
AfterLock ==
    [create_lock |-> "create_add_link", mkdir_lock |-> "mkdir_add_link",
     link_lock |-> "link_add_link", unlink_lock |-> "unlink_delete",
     tmpfile_lock |-> "tmpfile_link", rename_lock |-> "rename_commit",
     exchange_lock |-> "exchange_commit", symlink_lock |-> "symlink_add_link",
     mknod_lock |-> "mknod_add_link", recover_lock |-> "recover_dot"]

f2fs_lock_op(t) ==
    /\ pc[t] \in DOMAIN AfterLock
    /\ cp_rwsem = "none"
    /\ Step(t, Cur, AfterLock[pc[t]], [op[t] EXCEPT !.holds = @ + 1], t)

\* f2fs_new_inode (lines 97-157).  out is what the environment lets happen:
\* new_inode() failing, alloc_nid() failing, insert_inode_locked() colliding.
\* Lines 131-133: under an encrypted dir an inode of a type that can be
\* encrypted takes the policy of dir
f2fs_new_inode(fs, dir, mode, out) ==
    LET ino == alloc_nid(fs)
    IN  IF out = "ENOMEM" THEN [fs |-> fs, ino |-> NoIno, err |-> "ENOMEM"]
        ELSE IF ino = NoIno \/ out = "ENOSPC"
             THEN [fs |-> fs, ino |-> NoIno, err |-> "ENOSPC"]
        ELSE IF out = "EINVAL" THEN [fs |-> fs, ino |-> NoIno, err |-> "EINVAL"]
        ELSE LET f1 == new_inode(fs, ino, mode)
                 f2 == IF f2fs_encrypted_inode(fs, dir) /\ f2fs_may_encrypt(mode)
                       THEN [f1 EXCEPT !.i_crypt[ino] = fs.i_crypt[dir]]
                       ELSE f1
             IN  [fs |-> f2, ino |-> ino, err |-> "0"]

NewInodeOut == {"0", "ENOMEM", "ENOSPC", "EINVAL"}

\* the mode each caller of f2fs_new_inode asks for, and where it goes on
NewInodeMode ==
    [create |-> "reg", mkdir |-> "dir", tmpfile |-> "reg", rename |-> "chr",
     symlink |-> "lnk", mknod |-> "chr"]

NewInodeNext ==
    [create |-> "create_lock", mkdir |-> "mkdir_lock",
     tmpfile |-> "tmpfile_lock", rename |-> "tmpfile_lock",
     symlink |-> "symlink_lock", mknod |-> "mknod_lock"]

NewInode(t) ==
    /\ pc[t] = "new_inode"
    /\ cp_rwsem = "none"
    /\ \E out \in NewInodeOut :
        LET r == f2fs_new_inode(Cur, op[t].dir, NewInodeMode[op[t].kind], out)
        IN  Step(t, r.fs, IF r.err = "0" THEN NewInodeNext[op[t].kind] ELSE "ret",
                 [op[t] EXCEPT !.inode = r.ino, !.err = r.err,
                               !.fault = IF r.err = "0" THEN @ ELSE "new_inode"],
                 cp_rwsem)

\* ---- f2fs_create

\* f2fs_create is called (lines 195-207)
CreateCall(t) ==
    /\ t \in tasks
    /\ pc[t] = "idle"
    /\ ncalls < MaxCalls
    /\    \E dir \in Ino, name \in Names :
        /\ LiveDir(Cur, dir)
        /\ ~f2fs_find_entry(Cur, dir, name)
        /\ ~Busy(t, dir, name)
        /\ Call(t, "new_inode",
                [NoOp EXCEPT !.kind = "create", !.dir = dir, !.name = name])

\* f2fs_create inserting into the directory block as it was when the call
\* started, i.e. outside the serialisation of the lock
f2fs_create_add_link_stale(t, ok) ==
    LET stale == [Cur EXCEPT !.dentries[op[t].dir] = op[t].pre.dentries[op[t].dir]]
    IN  IF ok
        THEN Step(t, f2fs_add_link(stale, op[t].dir, op[t].name, op[t].inode,
                                   FALSE, TRUE),
                  "create_done", [op[t] EXCEPT !.err = "0"], "none")
        ELSE Step(t, handle_failed_inode(Cur, op[t].inode), "ret",
                  [op[t] EXCEPT !.err = "ENOSPC"], "none")

\* f2fs_create, lines 217-221 and 230-232
f2fs_create_add_link(t, ok) ==
    IF ok
    THEN Step(t, f2fs_add_link(Cur, op[t].dir, op[t].name, op[t].inode, FALSE, TRUE),
              "create_done", [op[t] EXCEPT !.err = "0"], "none")
    ELSE Step(t, handle_failed_inode(Cur, op[t].inode), "ret",
              [op[t] EXCEPT !.err = "ENOSPC"], "none")

CreateAddLink(t) ==
    /\ pc[t] = "create_add_link"
    /\ \E ok \in BOOLEAN : f2fs_create_add_link(t, ok)

\* f2fs_create forgetting alloc_nid_done
f2fs_create_done_no_nid_done(t) ==
    Step(t, d_instantiate(Cur, op[t].inode), "ret", [op[t] EXCEPT !.err = "0"],
         cp_rwsem)

\* f2fs_create, lines 223-229
f2fs_create_done(t) ==
    Step(t, d_instantiate(alloc_nid_done(Cur, op[t].inode), op[t].inode),
         "ret",
         f2fs_sync_fs(t, [op[t] EXCEPT !.err = "0"], <<op[t].dir>>, cp_rwsem),
         cp_rwsem)

CreateDone(t) ==
    /\ pc[t] = "create_done"
    /\ f2fs_create_done(t)

\* ---- f2fs_mkdir

\* f2fs_mkdir is called (lines 515-525); the VFS refuses a parent at the
\* link-count ceiling
MkdirCall(t) ==
    /\ t \in tasks
    /\ pc[t] = "idle"
    /\ ncalls < MaxCalls
    /\    \E dir \in Ino, name \in Names :
        /\ LiveDir(Cur, dir)
        /\ ~f2fs_find_entry(Cur, dir, name)
        /\ ~Busy(t, dir, name)
        /\ i_nlink[dir] < F2FS_LINK_MAX
        /\ Call(t, "new_inode",
                [NoOp EXCEPT !.kind = "mkdir", !.dir = dir, !.name = name])

\* f2fs_mkdir, lines 532-537 and 547-550
f2fs_mkdir_add_link(t, ok) ==
    IF ok
    THEN Step(t, f2fs_add_link(Cur, op[t].dir, op[t].name, op[t].inode, TRUE, TRUE),
              "mkdir_done", [op[t] EXCEPT !.err = "0"], "none")
    ELSE Step(t, handle_failed_inode(Cur, op[t].inode), "ret",
              [op[t] EXCEPT !.err = "ENOSPC"], "none")

MkdirAddLink(t) ==
    /\ pc[t] = "mkdir_add_link"
    /\ \E ok \in BOOLEAN : f2fs_mkdir_add_link(t, ok)

\* f2fs_mkdir, lines 539-545
f2fs_mkdir_done(t) ==
    Step(t, d_instantiate(alloc_nid_done(Cur, op[t].inode), op[t].inode),
         "ret",
         f2fs_sync_fs(t, [op[t] EXCEPT !.err = "0"], <<op[t].dir>>, cp_rwsem),
         cp_rwsem)

MkdirDone(t) ==
    /\ pc[t] = "mkdir_done"
    /\ f2fs_mkdir_done(t)

\* ---- f2fs_symlink

\* f2fs_symlink is called (lines 418-443).  long: the target is longer than a
\* block; enc: the directory is encrypted
SymlinkCall(t) ==
    /\ t \in tasks
    /\ pc[t] = "idle"
    /\ ncalls < MaxCalls
    /\ \E dir \in Ino, name \in Names, long \in BOOLEAN, enc \in BOOLEAN :
        /\ LiveDir(Cur, dir)
        /\ ~f2fs_find_entry(Cur, dir, name)
        /\ ~Busy(t, dir, name)
        /\ Call(t, IF long THEN "ret" ELSE "new_inode",
                [NoOp EXCEPT !.kind = "symlink", !.dir = dir, !.name = name,
                             !.enc = enc,
                             !.err = IF long THEN "ENAMETOOLONG" ELSE "0"])

\* f2fs_symlink, lines 445-449 and 510-512
f2fs_symlink_add_link(t, ok) ==
    IF ok
    THEN Step(t, LET f1 == f2fs_add_link(Cur, op[t].dir, op[t].name,
                                         op[t].inode, FALSE, TRUE)
                 IN  IF op[t].enc
                     THEN [f1 EXCEPT !.enc_name = @ \cup {op[t].inode}]
                     ELSE f1,
              "symlink_store", [op[t] EXCEPT !.err = "0"], "none")
    ELSE Step(t, handle_failed_inode(Cur, op[t].inode), "ret",
              [op[t] EXCEPT !.err = "ENOSPC"], "none")

SymlinkAddLink(t) ==
    /\ pc[t] = "symlink_add_link"
    /\ \E ok \in BOOLEAN : f2fs_symlink_add_link(t, ok)

\* what storing the target can end with: f2fs_get_encryption_info failing
\* (ENOKEY), no memory for the cipher buffer, for the container or for the
\* page (ENOMEM), the cipher failing (EIO), the container exceeding a block
\* (ENAMETOOLONG)
SymlinkOut == {"0", "ENOMEM", "ENOKEY", "EIO", "ENAMETOOLONG"}

\* f2fs_symlink, lines 450-509: the identifier is finalized, the target is
\* encoded and stored, and the dentry is instantiated whatever came of it;
\* a stored target is written back, and a synchronous directory is synced
\* whatever came of it
f2fs_symlink_store(t, out) ==
    Step(t, d_instantiate(alloc_nid_done(Cur, op[t].inode), op[t].inode), "ret",
         LET o == [op[t] EXCEPT
                       !.err = out,
                       !.fault = IF out = "0" THEN @ ELSE "symlink_store"]
         IN  f2fs_sync_fs(t,
                          IF out = "0"
                          THEN blocking_flush(t, o, "filemap_write_and_wait_range",
                                              cp_rwsem)
                          ELSE o,
                          <<op[t].dir>>, cp_rwsem),
         cp_rwsem)

SymlinkStore(t) ==
    /\ pc[t] = "symlink_store"
    /\ \E out \in SymlinkOut :
        /\ out \in (IF op[t].enc THEN SymlinkOut ELSE {"0", "ENOMEM"})
        /\ f2fs_symlink_store(t, out)

\* ---- f2fs_mknod

\* f2fs_mknod is called (lines 561-578).  valid: new_valid_dev(rdev)
MknodCall(t) ==
    /\ t \in tasks
    /\ pc[t] = "idle"
    /\ ncalls < MaxCalls
    /\ \E dir \in Ino, name \in Names, valid \in BOOLEAN :
        /\ LiveDir(Cur, dir)
        /\ ~f2fs_find_entry(Cur, dir, name)
        /\ ~Busy(t, dir, name)
        /\ Call(t, IF valid THEN "new_inode" ELSE "ret",
                [NoOp EXCEPT !.kind = "mknod", !.dir = dir, !.name = name,
                             !.err = IF valid THEN "0" ELSE "EINVAL"])

\* f2fs_mknod, lines 580-584 and 593-595
f2fs_mknod_add_link(t, ok) ==
    IF ok
    THEN Step(t, f2fs_add_link(Cur, op[t].dir, op[t].name, op[t].inode, FALSE, TRUE),
              "mknod_done", [op[t] EXCEPT !.err = "0"], "none")
    ELSE Step(t, handle_failed_inode(Cur, op[t].inode), "ret",
              [op[t] EXCEPT !.err = "ENOSPC"], "none")

MknodAddLink(t) ==
    /\ pc[t] = "mknod_add_link"
    /\ \E ok \in BOOLEAN : f2fs_mknod_add_link(t, ok)

\* f2fs_mknod, lines 586-592
f2fs_mknod_done(t) ==
    Step(t, d_instantiate(alloc_nid_done(Cur, op[t].inode), op[t].inode),
         "ret",
         f2fs_sync_fs(t, [op[t] EXCEPT !.err = "0"], <<op[t].dir>>, cp_rwsem),
         cp_rwsem)

MknodDone(t) ==
    /\ pc[t] = "mknod_done"
    /\ f2fs_mknod_done(t)

\* ---- f2fs_link

\* f2fs_link is called (lines 235-252) on an existing non-directory inode
\* below the link-count ceiling; lines 242-244: under an encrypted dir the
\* inode must be consistent with it
LinkCall(t) ==
    /\ t \in tasks
    /\ pc[t] = "idle"
    /\ ncalls < MaxCalls
    /\    \E dir \in Ino, name \in Names, inode \in Ino :
        /\ LiveDir(Cur, dir)
        /\ ~f2fs_find_entry(Cur, dir, name)
        /\ ~Busy(t, dir, name)
        /\ i_mode[inode] \in {"reg", "chr", "lnk"}
        /\ \E p \in Ino : LiveDir(Cur, p) /\ \E e \in dentries[p] : e[2] = inode
        /\ i_nlink[inode] < F2FS_LINK_MAX
        /\ IF /\ f2fs_encrypted_inode(Cur, dir)
              /\ ~f2fs_is_child_context_consistent_with_parent(Cur, dir, inode)
           THEN Call(t, "ret",
                     [NoOp EXCEPT !.kind = "link", !.dir = dir, !.name = name,
                                  !.inode = inode, !.err = "EPERM"])
           ELSE Call(t, "link_lock",
                     [NoOp EXCEPT !.kind = "link", !.dir = dir, !.name = name,
                                  !.inode = inode])

\* f2fs_link, lines 253-267
f2fs_link_add_link(t, ok) ==
    IF ok
    THEN Step(t, d_instantiate(
                    f2fs_add_link(Cur, op[t].dir, op[t].name, op[t].inode, TRUE, FALSE),
                    op[t].inode),
              "ret",
              f2fs_sync_fs(t, [op[t] EXCEPT !.err = "0"], <<op[t].dir>>, "none"),
              "none")
    ELSE Step(t, Cur, "ret", [op[t] EXCEPT !.err = "ENOSPC"], "none")

LinkAddLink(t) ==
    /\ pc[t] = "link_add_link"
    /\ \E ok \in BOOLEAN : f2fs_link_add_link(t, ok)

\* ---- f2fs_unlink and f2fs_rmdir

\* f2fs_unlink is called on the dentry of a non-directory (lines 367-376).
\* The dentry is that of an entry, or a stale one of a visible inode whose
\* entry of that name is gone
UnlinkCall(t) ==
    /\ t \in tasks
    /\ pc[t] = "idle"
    /\ ncalls < MaxCalls
    /\ \E dir \in Ino, name \in Names, inode \in Ino :
        /\ LiveDir(Cur, dir)
        /\ ~Busy(t, dir, name)
        /\ i_mode[inode] \in {"reg", "chr", "lnk"}
        /\ IF f2fs_find_entry(Cur, dir, name)
           THEN inode = f2fs_inode_by_name(Cur, dir, name)
           ELSE inode \in visible /\ i_nlink[inode] > 0
        /\ Call(t, "unlink_find",
                [NoOp EXCEPT !.kind = "unlink", !.dir = dir, !.name = name,
                             !.inode = inode])

\* f2fs_rmdir is called on a directory entry
RmdirCall(t) ==
    /\ t \in tasks
    /\ pc[t] = "idle"
    /\ ncalls < MaxCalls
    /\    \E dir \in Ino, name \in Names :
        /\ LiveDir(Cur, dir)
        /\ f2fs_find_entry(Cur, dir, name)
        /\ ~Busy(t, dir, name)
        /\ S_ISDIR(Cur, f2fs_inode_by_name(Cur, dir, name))
        /\ f2fs_inode_by_name(Cur, dir, name) \notin inline_dots
        /\ Call(t, "rmdir",
                [NoOp EXCEPT !.kind = "rmdir", !.dir = dir, !.name = name,
                             !.inode = f2fs_inode_by_name(Cur, dir, name)])

\* f2fs_rmdir without the f2fs_empty_dir test
f2fs_rmdir_no_empty_test(t) ==
    Step(t, Cur, "unlink_find", op[t], cp_rwsem)

\* f2fs_rmdir, lines 553-559
f2fs_rmdir(t) ==
    IF f2fs_empty_dir(Cur, op[t].inode)
    THEN Step(t, Cur, "unlink_find", op[t], cp_rwsem)
    ELSE Step(t, Cur, "ret", [op[t] EXCEPT !.err = "ENOTEMPTY"], cp_rwsem)

Rmdir(t) ==
    /\ pc[t] = "rmdir"
    /\ f2fs_rmdir(t)

\* f2fs_unlink, lines 373-380
f2fs_unlink_find(t) ==
    IF f2fs_find_entry(Cur, op[t].dir, op[t].name)
    THEN Step(t, Cur, "unlink_lock", [op[t] EXCEPT !.err = "ENOENT"], cp_rwsem)
    ELSE Step(t, Cur, "ret", [op[t] EXCEPT !.err = "ENOENT"], cp_rwsem)

UnlinkFind(t) ==
    /\ pc[t] = "unlink_find"
    /\ f2fs_unlink_find(t)

\* f2fs_unlink removing the entry before it looks at the result of
\* acquire_orphan_inode
f2fs_unlink_delete_unreserved(t, ok) ==
    IF ok
    THEN Step(t, f2fs_delete_entry(acquire_orphan_inode(Cur), op[t].dir,
                                   <<op[t].name, op[t].inode>>, op[t].inode),
              "ret", [op[t] EXCEPT !.err = "0"], "none")
    ELSE Step(t, f2fs_delete_entry(Cur, op[t].dir, <<op[t].name, op[t].inode>>,
                                   NoIno),
              "ret",
              [op[t] EXCEPT !.err = "ENOSPC", !.fault = "acquire_orphan_inode"],
              "none")

\* f2fs_unlink, lines 383-400.  ok: acquire_orphan_inode found a slot
f2fs_unlink_delete(t, ok) ==
    IF ok
    THEN Step(t, f2fs_delete_entry(acquire_orphan_inode(Cur), op[t].dir,
                                   <<op[t].name, op[t].inode>>, op[t].inode),
              "ret",
              f2fs_sync_fs(t, [op[t] EXCEPT !.err = "0"], <<op[t].dir>>, "none"),
              "none")
    ELSE Step(t, Cur, "ret",
              [op[t] EXCEPT !.err = "ENOSPC", !.fault = "acquire_orphan_inode"],
              "none")

UnlinkDelete(t) ==
    /\ pc[t] = "unlink_delete"
    /\ \E ok \in BOOLEAN : f2fs_unlink_delete(t, ok)

\* ---- __f2fs_tmpfile, f2fs_tmpfile and f2fs_create_whiteout

\* f2fs_tmpfile is called (lines 655-664, 598-610)
TmpfileCall(t) ==
    /\ t \in tasks
    /\ pc[t] = "idle"
    /\ ncalls < MaxCalls
    /\    \E dir \in Ino :
        /\ LiveDir(Cur, dir)
        /\ Call(t, "new_inode", [NoOp EXCEPT !.kind = "tmpfile", !.dir = dir])

TmpfileOut == {"0", "ENOSPC", "ENOMEM"}

\* __f2fs_tmpfile leaving through out, not release_out, when f2fs_do_tmpfile
\* failed
__f2fs_tmpfile_link_leak(t, out) ==
    IF out = "0"
    THEN Step(t, add_orphan_inode(acquire_orphan_inode(Cur), op[t].inode),
              "tmpfile_done", [op[t] EXCEPT !.err = "0"], "none")
    ELSE IF out = "ENOSPC"
    THEN Step(t, handle_failed_inode(Cur, op[t].inode), "ret",
              [op[t] EXCEPT !.err = out, !.fault = "acquire_orphan_inode"],
              "none")
    ELSE Step(t, handle_failed_inode(acquire_orphan_inode(Cur), op[t].inode),
              "ret", [op[t] EXCEPT !.err = out, !.fault = "f2fs_do_tmpfile"],
              "none")

\* __f2fs_tmpfile, lines 621-635 and 648-652.  out: acquire_orphan_inode
\* finding no slot (ENOSPC), f2fs_do_tmpfile failing (ENOMEM)
__f2fs_tmpfile_link(t, out) ==
    IF out = "0"
    THEN Step(t, add_orphan_inode(acquire_orphan_inode(Cur), op[t].inode),
              "tmpfile_done", [op[t] EXCEPT !.err = "0"], "none")
    ELSE IF out = "ENOSPC"
    THEN Step(t, handle_failed_inode(Cur, op[t].inode), "ret",
              [op[t] EXCEPT !.err = out, !.fault = "acquire_orphan_inode"],
              "none")
    ELSE Step(t, handle_failed_inode(
                     release_orphan_inode(acquire_orphan_inode(Cur)),
                     op[t].inode),
              "ret", [op[t] EXCEPT !.err = out, !.fault = "f2fs_do_tmpfile"],
              "none")

TmpfileLink(t) ==
    /\ pc[t] = "tmpfile_link"
    /\ \E out \in TmpfileOut : __f2fs_tmpfile_link(t, out)

\* __f2fs_tmpfile handing the whiteout to f2fs_rename without
\* inode_dec_link_count
__f2fs_tmpfile_done_keeps_link(t) ==
    LET ino == op[t].inode
        f1 == alloc_nid_done(Cur, ino)
    IN  IF op[t].kind = "rename"
        THEN Step(t, f1, "rename_target",
                  [op[t] EXCEPT !.whiteout = ino, !.inode = NoIno, !.err = "0"],
                  cp_rwsem)
        ELSE Step(t, d_instantiate(drop_nlink(f1, ino), ino), "ret",
                  [op[t] EXCEPT !.err = "0"], cp_rwsem)

\* __f2fs_tmpfile, lines 637-646: the identifier is finalized; a whiteout
\* loses its link and goes to f2fs_rename, a temp file goes to d_tmpfile,
\* which drops its link too
__f2fs_tmpfile_done(t) ==
    LET ino == op[t].inode
        f1 == drop_nlink(alloc_nid_done(Cur, ino), ino)
    IN  IF op[t].kind = "rename"
        THEN Step(t, f1, "rename_target",
                  [op[t] EXCEPT !.whiteout = ino, !.inode = NoIno, !.err = "0"],
                  cp_rwsem)
        ELSE Step(t, d_instantiate(f1, ino), "ret", [op[t] EXCEPT !.err = "0"],
                  cp_rwsem)

TmpfileDone(t) ==
    /\ pc[t] = "tmpfile_done"
    /\ __f2fs_tmpfile_done(t)

\* ---- f2fs_rename

RECURSIVE Below(_, _, _)
\* the inodes reachable from the set S through entries, S included
Below(fs, S, n) ==
    IF n = 0 THEN S
    ELSE Below(fs, S \cup {e[2] : e \in UNION {fs.dentries[d] : d \in S}}, n - 1)

DescOrSelf(fs, d) == Below(fs, {d}, MaxIno)

RenameFlags == {{}, {"WHITEOUT"}, {"NOREPLACE"}, {"NOREPLACE", "WHITEOUT"}}

\* what vfs_rename lets through to ->rename2 for two located dentries; the
\* link-count ceiling of an exchange is the business of f2fs_cross_rename
\* (lines 881-894)
VfsRenameOk(fs, old_dir, old_name, new_dir, new_name, exchange) ==
    LET src == f2fs_inode_by_name(fs, old_dir, old_name)
        tgt == f2fs_inode_by_name(fs, new_dir, new_name)
    IN  /\ LiveDir(fs, old_dir)
        /\ LiveDir(fs, new_dir)
        /\ src # NoIno
        /\ {src, tgt} \cap fs.inline_dots = {}
        /\ <<old_dir, old_name>> # <<new_dir, new_name>>
        /\ src # tgt
        /\ exchange => tgt # NoIno
        /\ S_ISDIR(fs, src) => new_dir \notin DescOrSelf(fs, src)
        /\ tgt # NoIno =>
            /\ old_dir \notin DescOrSelf(fs, tgt)
            /\ ~exchange => (S_ISDIR(fs, src) <=> S_ISDIR(fs, tgt))
        /\ (new_dir # old_dir /\ ~exchange) =>
            ~(/\ S_ISDIR(fs, src)
              /\ tgt = NoIno
              /\ fs.i_nlink[new_dir] >= F2FS_LINK_MAX)

\* f2fs_rename2 without RENAME_EXCHANGE (lines 993-1009): f2fs_rename is
\* called; with RENAME_NOREPLACE the VFS has made sure there is no target
RenameCall(t) ==
    /\ t \in tasks
    /\ pc[t] = "idle"
    /\ ncalls < MaxCalls
    /\    \E old_dir \in Ino, old_name \in Names, new_dir \in Ino, new_name \in Names,
       flags \in RenameFlags :
        /\ VfsRenameOk(Cur, old_dir, old_name, new_dir, new_name, FALSE)
        /\ "NOREPLACE" \in flags => ~f2fs_find_entry(Cur, new_dir, new_name)
        /\ ~Busy(t, old_dir, old_name)
        /\ ~Busy(t, new_dir, new_name)
        /\ Call(t, "rename_find",
                [NoOp EXCEPT !.kind = "rename", !.dir = old_dir, !.name = old_name,
                             !.new_dir = new_dir, !.new_name = new_name,
                             !.flags = flags,
                             !.old_inode = f2fs_inode_by_name(Cur, old_dir, old_name),
                             !.new_inode = f2fs_inode_by_name(Cur, new_dir, new_name),
                             !.err = "ENOENT"])

\* old_dir_entry of f2fs_rename: set once the source is a directory
old_dir_entry(fs, o) == S_ISDIR(fs, o.old_inode)

\* f2fs_rename, lines 684-710: the moved inode must be consistent with an
\* encrypted new directory that is not the old one; locate the source entry
\* and, for a directory, its `..` entry; with RENAME_WHITEOUT go through
\* f2fs_create_whiteout
f2fs_rename_find(t) ==
    LET o == op[t]
    IN  IF /\ o.dir # o.new_dir
           /\ f2fs_encrypted_inode(Cur, o.new_dir)
           /\ ~f2fs_is_child_context_consistent_with_parent(Cur, o.new_dir,
                                                            o.old_inode)
        THEN Step(t, Cur, "ret", [o EXCEPT !.err = "EPERM"], cp_rwsem)
        ELSE IF ~f2fs_find_entry(Cur, o.dir, o.name)
        THEN Step(t, Cur, "ret", o, cp_rwsem)
        ELSE IF S_ISDIR(Cur, o.old_inode) /\ ~f2fs_parent_dir(Cur, o.old_inode)
        THEN Step(t, Cur, "ret", [o EXCEPT !.err = "EIO"], cp_rwsem)
        ELSE IF "WHITEOUT" \in o.flags
        THEN Step(t, Cur, "new_inode", o, cp_rwsem)
        ELSE Step(t, Cur, "rename_target", o, cp_rwsem)

RenameFind(t) ==
    /\ pc[t] = "rename_find"
    /\ f2fs_rename_find(t)

\* f2fs_rename without the f2fs_empty_dir test of line 715
f2fs_rename_target_no_empty_test(t) ==
    LET o == op[t]
    IN  IF o.new_inode = NoIno THEN Step(t, Cur, "rename_lock", o, cp_rwsem)
        ELSE IF ~f2fs_find_entry(Cur, o.new_dir, o.new_name)
        THEN Step(t, Cur, "ret", [o EXCEPT !.err = "ENOENT"], cp_rwsem)
        ELSE Step(t, Cur, "rename_lock", [o EXCEPT !.err = "ENOENT"], cp_rwsem)

\* f2fs_rename, lines 712-722: an existing target must be empty when a
\* directory replaces it, and its entry must be found
f2fs_rename_target(t) ==
    LET o == op[t]
    IN  IF o.new_inode = NoIno THEN Step(t, Cur, "rename_lock", o, cp_rwsem)
        ELSE IF old_dir_entry(Cur, o) /\ ~f2fs_empty_dir(Cur, o.new_inode)
        THEN Step(t, Cur, "ret", [o EXCEPT !.err = "ENOTEMPTY"], cp_rwsem)
        ELSE IF ~f2fs_find_entry(Cur, o.new_dir, o.new_name)
        THEN Step(t, Cur, "ret", [o EXCEPT !.err = "ENOENT"], cp_rwsem)
        ELSE Step(t, Cur, "rename_lock", [o EXCEPT !.err = "ENOENT"], cp_rwsem)

RenameTarget(t) ==
    /\ pc[t] = "rename_target"
    /\ f2fs_rename_target(t)

RenameOut == {"0", "orphan", "dent", "link"}

\* f2fs_rename, lines 724-767, under the lock.  out: acquire_orphan_inode
\* finding no slot, update_dent_inode failing, f2fs_add_link failing.
\* holder: who holds the lock when the target is handled
rename_commit(t, out, holder) ==
    LET o == op[t]
    IN  IF o.new_inode # NoIno
        THEN IF out = "orphan"
             THEN Step(t, Cur, "ret",
                       [o EXCEPT !.err = "ENOSPC", !.fault = "acquire_orphan_inode"],
                       "none")
             ELSE IF out = "dent"
             THEN Step(t, release_orphan_inode(acquire_orphan_inode(Cur)), "ret",
                       [o EXCEPT !.err = "0", !.fault = "update_dent_inode"], "none")
             ELSE LET f0 == propagate_enc_name(
                                update_dent_inode(acquire_orphan_inode(Cur),
                                                  o.old_inode, o.new_inode,
                                                  o.new_name, TRUE).fs,
                                o.new_inode, o.old_inode)
                      f1 == f2fs_set_link(f0, o.new_dir,
                                          <<o.new_name, o.new_inode>>, o.old_inode)
                      f2 == IF old_dir_entry(Cur, o)
                            THEN drop_nlink(f1, o.new_inode) ELSE f1
                      f3 == drop_nlink(f2, o.new_inode)
                      f4 == IF f3.i_nlink[o.new_inode] = 0
                            THEN add_orphan_inode(f3, o.new_inode)
                            ELSE release_orphan_inode(f3)
                  IN  Step(t, f4, "rename_fixup", [o EXCEPT !.err = "0"], holder)
        ELSE IF out = "link"
             THEN Step(t, Cur, "ret",
                       [o EXCEPT !.err = "ENOSPC", !.fault = "f2fs_add_link"], "none")
             ELSE LET f1 == f2fs_add_link(Cur, o.new_dir, o.new_name, o.old_inode,
                                          FALSE, FALSE)
                      f2 == IF old_dir_entry(Cur, o)
                            THEN inc_nlink(f1, o.new_dir) ELSE f1
                  IN  Step(t, f2, "rename_fixup", [o EXCEPT !.err = "0"], holder)

\* f2fs_rename unlocking once the target is handled, before the source entry
\* is removed
f2fs_rename_commit_unlocks(t, out) == rename_commit(t, out, "none")

f2fs_rename_commit(t, out) == rename_commit(t, out, t)

RenameCommit(t) ==
    /\ pc[t] = "rename_commit"
    /\ \E out \in RenameOut :
        /\ out \in (IF op[t].new_inode # NoIno THEN {"0", "orphan", "dent"}
                    ELSE {"0", "link"})
        /\ out = "dent" => op[t].new_inode \notin enc_name
        /\ f2fs_rename_commit(t, out)

\* f2fs_rename, lines 769-811, still under the lock: the source entry goes,
\* the whiteout takes its name, the `..` entry and the old parent's link
\* count follow.  ok: f2fs_add_link of the whiteout succeeded
f2fs_rename_fixup(t, ok) ==
    LET o == op[t]
        f1 == f2fs_delete_entry(Cur, o.dir, <<o.name, o.old_inode>>, NoIno)
    IN  IF o.whiteout # NoIno /\ ~ok
        THEN Step(t, f1, "ret",
                  [o EXCEPT !.err = "ENOSPC", !.fault = "f2fs_add_link"], "none")
        ELSE LET f2 == IF o.whiteout # NoIno
                       THEN f2fs_add_link(f1, o.dir, o.name, o.whiteout, TRUE, FALSE)
                       ELSE f1
                 f3 == IF old_dir_entry(Cur, o)
                       THEN drop_nlink(
                              IF o.dir # o.new_dir /\ o.whiteout = NoIno
                              THEN f2fs_set_dotdot(f2, o.old_inode, o.new_dir)
                              ELSE f2, o.dir)
                       ELSE f2
             IN  Step(t, f3, "ret",
                      f2fs_sync_fs(t, [o EXCEPT !.err = "0"],
                                   <<o.dir, o.new_dir>>, "none"),
                      "none")

RenameFixup(t) ==
    /\ pc[t] = "rename_fixup"
    /\ \E ok \in BOOLEAN :
        /\ (op[t].whiteout = NoIno => ok)
        /\ f2fs_rename_fixup(t, ok)

\* ---- f2fs_cross_rename

\* f2fs_rename2 with RENAME_EXCHANGE: f2fs_cross_rename is called
ExchangeCall(t) ==
    /\ t \in tasks
    /\ pc[t] = "idle"
    /\ ncalls < MaxCalls
    /\    \E old_dir \in Ino, old_name \in Names, new_dir \in Ino, new_name \in Names :
        /\ VfsRenameOk(Cur, old_dir, old_name, new_dir, new_name, TRUE)
        /\ ~Busy(t, old_dir, old_name)
        /\ ~Busy(t, new_dir, new_name)
        /\ Call(t, "exchange_find",
                [NoOp EXCEPT !.kind = "exchange", !.dir = old_dir, !.name = old_name,
                             !.new_dir = new_dir, !.new_name = new_name,
                             !.old_inode = f2fs_inode_by_name(Cur, old_dir, old_name),
                             !.new_inode = f2fs_inode_by_name(Cur, new_dir, new_name),
                             !.err = "ENOENT"])

\* old_dir_entry and new_dir_entry of f2fs_cross_rename (lines 862-879): set
\* for a directory that changes parent
x_old_dir_entry(fs, o) == o.dir # o.new_dir /\ S_ISDIR(fs, o.old_inode)

x_new_dir_entry(fs, o) == o.dir # o.new_dir /\ S_ISDIR(fs, o.new_inode)

\* old_nlink of f2fs_cross_rename (lines 886-889); new_nlink is its negative
old_nlink(fs, o) ==
    IF (~x_old_dir_entry(fs, o) \/ ~x_new_dir_entry(fs, o))
       /\ x_old_dir_entry(fs, o) # x_new_dir_entry(fs, o)
    THEN (IF x_old_dir_entry(fs, o) THEN -1 ELSE 1)
    ELSE 0

\* f2fs_cross_rename, lines 844-894: between two directories one of which is
\* encrypted, each inode must be consistent with the directory it moves to;
\* locate both entries and the `..` entries, refuse a link count that may
\* not grow
f2fs_cross_rename_find(t) ==
    LET o == op[t]
    IN  IF /\ f2fs_encrypted_inode(Cur, o.dir)
              \/ f2fs_encrypted_inode(Cur, o.new_dir)
           /\ o.dir # o.new_dir
           /\ \/ ~f2fs_is_child_context_consistent_with_parent(Cur, o.new_dir,
                                                               o.old_inode)
              \/ ~f2fs_is_child_context_consistent_with_parent(Cur, o.dir,
                                                               o.new_inode)
        THEN Step(t, Cur, "ret", [o EXCEPT !.err = "EPERM"], cp_rwsem)
        ELSE IF ~f2fs_find_entry(Cur, o.dir, o.name)
           \/ ~f2fs_find_entry(Cur, o.new_dir, o.new_name)
        THEN Step(t, Cur, "ret", o, cp_rwsem)
        ELSE IF \/ x_old_dir_entry(Cur, o) /\ ~f2fs_parent_dir(Cur, o.old_inode)
                \/ x_new_dir_entry(Cur, o) /\ ~f2fs_parent_dir(Cur, o.new_inode)
        THEN Step(t, Cur, "ret", [o EXCEPT !.err = "EIO"], cp_rwsem)
        ELSE IF \/ old_nlink(Cur, o) > 0 /\ i_nlink[o.old_inode] >= F2FS_LINK_MAX
                \/ -old_nlink(Cur, o) > 0 /\ i_nlink[o.new_inode] >= F2FS_LINK_MAX
        THEN Step(t, Cur, "ret", [o EXCEPT !.err = "EMLINK"], cp_rwsem)
        ELSE Step(t, Cur, "exchange_lock", o, cp_rwsem)

ExchangeFind(t) ==
    /\ pc[t] = "exchange_find"
    /\ f2fs_cross_rename_find(t)

\* f2fs_cross_rename leaving the parents' link counts alone
adjust_nlink_skipped(fs, dir, n) == fs

\* link-count adjustment of a parent directory (lines 928-935, 949-956)
adjust_nlink(fs, dir, n) ==
    IF n < 0 THEN drop_nlink(fs, dir)
    ELSE IF n > 0 THEN inc_nlink(fs, dir)
    ELSE fs

ExchangeOut == {"0", "dent1", "dent2", "dent2_undo"}

\* f2fs_cross_rename, lines 896-972, under the lock.  out: the node page
\* cannot be read in the first update_dent_inode, in the second, or in the
\* second and in the one of out_undo
f2fs_cross_rename_commit(t, out) ==
    LET o == op[t]
        u1 == update_dent_inode(Cur, o.old_inode, o.new_inode, o.new_name,
                                out # "dent1")
        e1 == propagate_enc_name(u1.fs, o.new_inode, o.old_inode)
        u2 == update_dent_inode(e1, o.new_inode, o.old_inode, o.name,
                                out \notin {"dent2", "dent2_undo"})
        e2 == propagate_enc_name(u2.fs, o.old_inode, o.new_inode)
        undo == update_dent_inode(e1, o.old_inode, o.old_inode, o.name,
                                  out # "dent2_undo")
    IN  IF u1.err # "0"
        THEN Step(t, Cur, "ret",
                  [o EXCEPT !.err = u1.err, !.fault = "update_dent_inode_1"],
                  "none")
        ELSE IF u2.err # "0"
        THEN Step(t, undo.fs, "ret",
                  [o EXCEPT !.err = u2.err, !.fault = "update_dent_inode_2"],
                  "none")
        ELSE LET f1 == IF x_old_dir_entry(e2, o)
                       THEN f2fs_set_dotdot(e2, o.old_inode, o.new_dir) ELSE e2
                 f2 == IF x_new_dir_entry(Cur, o)
                       THEN f2fs_set_dotdot(f1, o.new_inode, o.dir) ELSE f1
                 f3 == f2fs_set_link(f2, o.dir, <<o.name, o.old_inode>>, o.new_inode)
                 f4 == adjust_nlink(f3, o.dir, old_nlink(Cur, o))
                 f5 == f2fs_set_link(f4, o.new_dir, <<o.new_name, o.new_inode>>,
                                     o.old_inode)
                 f6 == adjust_nlink(f5, o.new_dir, -old_nlink(Cur, o))
             IN  Step(t, f6, "ret",
                      f2fs_sync_fs(t, [o EXCEPT !.err = "0"],
                                   <<o.dir, o.new_dir>>, "none"),
                      "none")

ExchangeCommit(t) ==
    /\ pc[t] = "exchange_commit"
    /\ \E out \in ExchangeOut :
        /\ out = "dent1" => op[t].new_inode \notin enc_name
        /\ out \in {"dent2", "dent2_undo"} =>
               {op[t].old_inode, op[t].new_inode} \cap enc_name = {}
        /\ f2fs_cross_rename_commit(t, out)

\* ---- f2fs_lookup and __recover_dot_dentries

\* f2fs_lookup (lines 317-351) up to the test of the inline-dots flag.  The
\* name is absent (a negative dentry is returned), or its inode is read and
\* either handed out or, carrying FI_INLINE_DOTS, taken to recovery with the
\* directory looked up in as the parent id
LookupCall(t) ==
    /\ t \in tasks
    /\ pc[t] = "idle"
    /\ ncalls < MaxCalls
    /\ \E dir \in Ino, name \in Names :
        /\ LiveDir(Cur, dir)
        /\ LET inode == f2fs_inode_by_name(Cur, dir, name)
               o == [NoOp EXCEPT !.kind = "lookup", !.dir = dir,
                                 !.name = name, !.inode = inode,
                                 !.pre = Cur]
           IN  IF inode = NoIno
               THEN Step(t, Cur, "ret", [o EXCEPT !.inode = NoIno], cp_rwsem)
               ELSE IF inode \in inline_dots
               THEN Step(t, Cur, "recover_lock", o, cp_rwsem)
               ELSE Step(t, d_instantiate(Cur, inode), "ret", o, cp_rwsem)

\* f2fs_find_entry of "." or ".." in a directory whose dot entries are explicit
find_dot_entry(fs, dir, name) ==
    \E i \in 1..Len(fs.dot_entries[dir]) : fs.dot_entries[dir][i][1] = name

\* __f2fs_add_link of "." or "..": the entry is appended whether or not one of
\* that name exists; the first ".." is what f2fs_parent_dir finds
add_dot_entry(fs, dir, name, ino) ==
    [fs EXCEPT !.dot_entries[dir] = Append(@, <<name, ino>>),
               !.dotdot[dir] = IF name = ".." /\ @ = NoIno THEN ino ELSE @]

\* __recover_dot_dentries inserting "." without looking for it
__recover_dot_no_find(t, ok) ==
    LET o == op[t]
    IN  IF ok
        THEN Step(t, add_dot_entry(Cur, o.inode, ".", o.inode),
                  "recover_dotdot", o, t)
        ELSE Step(t, Cur, "recover_out",
                  [o EXCEPT !.err = "ENOSPC", !.fault = "add_dot"], t)

\* __recover_dot_dentries, lines 290-298: "." is found, or inserted.  ok: the
\* insertion succeeds
__recover_dot(t, ok) ==
    LET o == op[t]
    IN  IF find_dot_entry(Cur, o.inode, ".")
        THEN Step(t, Cur, "recover_dotdot", o, t)
        ELSE IF ok
        THEN Step(t, add_dot_entry(Cur, o.inode, ".", o.inode),
                  "recover_dotdot", o, t)
        ELSE Step(t, Cur, "recover_out",
                  [o EXCEPT !.err = "ENOSPC", !.fault = "add_dot"], t)

RecoverDot(t) ==
    /\ pc[t] = "recover_dot"
    /\ \E ok \in BOOLEAN : __recover_dot(t, ok)

\* __recover_dot_dentries, lines 300-306: ".." is found, or inserted with the
\* parent id passed in
__recover_dotdot(t, ok) ==
    LET o == op[t]
    IN  IF find_dot_entry(Cur, o.inode, "..")
        THEN Step(t, Cur, "recover_out", o, t)
        ELSE IF ok
        THEN Step(t, add_dot_entry(Cur, o.inode, "..", o.dir),
                  "recover_out", o, t)
        ELSE Step(t, Cur, "recover_out",
                  [o EXCEPT !.err = "ENOSPC", !.fault = "add_dotdot"], t)

RecoverDotDot(t) ==
    /\ pc[t] = "recover_dotdot"
    /\ \E ok \in BOOLEAN : __recover_dotdot(t, ok)

\* __recover_dot_dentries returning with the lock still held
__recover_out_locked(t) ==
    LET o == op[t]
    IN  IF o.err = "0"
        THEN Step(t, d_instantiate([Cur EXCEPT !.inline_dots = @ \ {o.inode}],
                                   o.inode),
                  "ret", o, t)
        ELSE Step(t, Cur, "ret", o, t)

\* __recover_dot_dentries, lines 307-314, and f2fs_lookup, lines 349-365: the
\* flag is cleared when nothing failed, the lock is released; the lookup
\* hands the inode out, or fails with the error of the recovery
__recover_out(t) ==
    LET o == op[t]
    IN  IF o.err = "0"
        THEN Step(t, d_instantiate([Cur EXCEPT !.inline_dots = @ \ {o.inode}],
                                   o.inode),
                  "ret", o, "none")
        ELSE Step(t, Cur, "ret", o, "none")

RecoverOut(t) ==
    /\ pc[t] = "recover_out"
    /\ __recover_out(t)

\* ------------------------------------------------- dentry-cache names

\* bytes of a name: 'F', 'O', 'f', 'o' and '.'
Dot == 46
NameBytes == {70, 79, 102, 111, Dot}

\* "FOO", "foo", "foo." and "foo.."
NAME_FOO == <<70, 79, 79>>
name_foo == <<102, 111, 111>>
name_foo_dot == <<102, 111, 111, Dot>>
name_foo_dotdot == <<102, 111, 111, Dot, Dot>>

\* the names a comparison is made with
CmpNames ==
    UNION {[1..n -> NameBytes] : n \in 0..MaxNameLen}
        \cup {name_foo_dot, name_foo_dotdot}

\* tolower() of the C locale
tolower(c) == IF c >= 65 /\ c <= 90 THEN c + 32 ELSE c

\* __f2fs_striptail_len taking one trailing '.' off at most
__f2fs_striptail_len_once(len, name) ==
    IF len # 0 /\ name[len] = Dot THEN len - 1 ELSE len

\* lines 27-32: while (len && name[len - 1] == '.') len--;
RECURSIVE __f2fs_striptail_len(_, _)
__f2fs_striptail_len(len, name) ==
    IF len # 0 /\ name[len] = Dot
    THEN __f2fs_striptail_len(len - 1, name)
    ELSE len

\* lines 34-37
f2fs_striptail_len(qstr) == __f2fs_striptail_len(Len(qstr), qstr)

\* strncasecmp(s1, s2, len) from the i-th byte on: 0 when no byte of the
\* first len differs once lowered.  Both names are at least len bytes long
\* and hold no NUL
RECURSIVE strncasecmp_from(_, _, _, _)
strncasecmp_from(s1, s2, len, i) ==
    IF i > len THEN 0
    ELSE IF tolower(s1[i]) # tolower(s2[i])
         THEN tolower(s1[i]) - tolower(s2[i])
         ELSE strncasecmp_from(s1, s2, len, i + 1)

strncasecmp(s1, s2, len) == strncasecmp_from(s1, s2, len, 1)

\* the state of the namespace operations
nsvars == <<i_mode, i_nlink, dentries, dotdot, nid, orphans, n_orphans,
            visible, i_name, enc_name, i_crypt, inline_dots, dot_entries,
            cp_rwsem, pc, op, ncalls, tasks, F2FS_LINK_MAX, dirsync>>

\* no comparison is running
NoCmp == [pc |-> "idle", name |-> <<>>, str |-> <<>>, alen |-> 0, blen |-> 0,
          ret |-> 0]

\* lines 62-64.  name: the qstr looked up; str, Len(str): the dentry's name
f2fs_d_compare_strip ==
    /\ dcmp.pc = "strip"
    /\ dcmp' = [dcmp EXCEPT !.pc = "compare",
                            !.alen = f2fs_striptail_len(dcmp.name),
                            !.blen = __f2fs_striptail_len(Len(dcmp.str),
                                                          dcmp.str)]
    /\ UNCHANGED <<nsvars, dhash, flink>>

\* lines 65-69
f2fs_d_compare_ret ==
    /\ dcmp.pc = "compare"
    /\ dcmp' = [dcmp EXCEPT
                    !.pc = "ret",
                    !.ret = IF /\ dcmp.alen = dcmp.blen
                               /\ strncasecmp(dcmp.name, dcmp.str,
                                              dcmp.alen) = 0
                            THEN 0 ELSE 1]
    /\ UNCHANGED <<nsvars, dhash, flink>>

\* ------------------------------------------------------------ f2fs_d_hash

\* init_name_hash(), partial_name_hash() and end_name_hash() of dcache.h;
\* the running hash is an unsigned long, cut to an unsigned int at the end
init_name_hash == 0

partial_name_hash(c, prevhash) == (prevhash + c * 16 + c \div 16) * 11

end_name_hash(hash) == hash % (2 ^ HashBits)

\* no hashing is running.  qstr: the name hashed; len, hash: the locals of
\* f2fs_d_hash; pos: the byte `name` points at; out: qstr->hash of the names
\* hashed so far
NoHash == [pc |-> "idle", qstr |-> <<>>, len |-> 0, pos |-> 1, hash |-> 0,
           out |-> <<>>]

\* f2fs_d_hash is called for the name a dentry was made with, and then for
\* the name looked up
f2fs_d_hash_call ==
    /\ dhash.pc \in {"idle", "ret"}
    /\ dcmp.pc # "idle"
    /\ Len(dhash.out) < 2
    /\ dhash' = [dhash EXCEPT !.pc = "strip",
                              !.qstr = IF Len(dhash.out) = 0 THEN dcmp.str
                                       ELSE dcmp.name]
    /\ UNCHANGED <<nsvars, dcmp, flink>>

\* lines 45-48
f2fs_d_hash_strip ==
    /\ dhash.pc = "strip"
    /\ dhash' = [dhash EXCEPT !.pc = "loop",
                              !.len = f2fs_striptail_len(dhash.qstr),
                              !.pos = 1,
                              !.hash = init_name_hash]
    /\ UNCHANGED <<nsvars, dcmp, flink>>

\* f2fs_d_hash hashing the bytes as they are
f2fs_d_hash_loop_no_tolower ==
    /\ dhash.pc = "loop"
    /\ dhash.len # 0
    /\ dhash' = [dhash EXCEPT
                    !.len = @ - 1,
                    !.pos = @ + 1,
                    !.hash = partial_name_hash(dhash.qstr[dhash.pos], @)]
    /\ UNCHANGED <<nsvars, dcmp, flink>>

\* lines 49-50: while (len--)
\*                  hash = partial_name_hash(tolower(*name++), hash);
f2fs_d_hash_loop ==
    /\ dhash.pc = "loop"
    /\ dhash.len # 0
    /\ dhash' = [dhash EXCEPT
                    !.len = @ - 1,
                    !.pos = @ + 1,
                    !.hash = partial_name_hash(tolower(dhash.qstr[dhash.pos]), @)]
    /\ UNCHANGED <<nsvars, dcmp, flink>>

\* lines 51-53
f2fs_d_hash_end ==
    /\ dhash.pc = "loop"
    /\ dhash.len = 0
    /\ dhash' = [dhash EXCEPT !.pc = "ret",
                              !.out = Append(@, end_name_hash(dhash.hash))]
    /\ UNCHANGED <<nsvars, dcmp, flink>>

\* f2fs_d_compare (lines 56-70) as a function of the name looked up and of
\* the name of a dentry
f2fs_d_compare(name, str) ==
    LET alen == f2fs_striptail_len(name)
        blen == __f2fs_striptail_len(Len(str), str)
    IN  IF alen = blen /\ strncasecmp(name, str, alen) = 0 THEN 0 ELSE 1

\* ------------------------------------------- f2fs_encrypted_follow_link

\* sizeof(struct f2fs_encrypted_symlink_data): a 16-bit len and
\* encrypted_path[1], packed
SymlinkDataSize == 3

\* no decoding is running.  len: sd->len as stored; first: whether the first
\* byte of encrypted_path is 0; used: what the stored length was used for,
\* in order; cpage: the page was read
NoLink == [pc |-> "idle", len |-> 0, first |-> FALSE, used |-> <<>>,
           cpage |-> FALSE, res |-> "0"]

FollowStep(nl) ==
    /\ flink' = nl
    /\ UNCHANGED <<nsvars, dcmp, dhash>>

\* lines 1025-1031: the encryption info and the first page are read
follow_link_read ==
    /\ flink.pc = "read"
    /\ \E out \in {"0", "ENOKEY", "EIO"} :
        IF out = "0"
        THEN FollowStep([flink EXCEPT !.pc = "kmalloc", !.cpage = TRUE])
        ELSE FollowStep([flink EXCEPT !.pc = "ret", !.res = out])

\* lines 1036-1041: cstr.len = sd->len; cstr.name = kmalloc(cstr.len)
follow_link_kmalloc ==
    /\ flink.pc = "kmalloc"
    /\ \E ok \in BOOLEAN :
        IF ok
        THEN FollowStep([flink EXCEPT !.pc = "memcpy",
                                      !.used = Append(@, "kmalloc")])
        ELSE FollowStep([flink EXCEPT !.pc = "ret", !.res = "ENOMEM",
                                      !.used = Append(@, "kmalloc")])

\* line 1042: memcpy(cstr.name, sd->encrypted_path, cstr.len).  The bytes
\* lie in the page when the container ends within it; otherwise the copy
\* reads past the mapped page and either faults or goes on
follow_link_memcpy ==
    /\ flink.pc = "memcpy"
    /\ \E fault \in BOOLEAN :
        /\ fault => flink.len + SymlinkDataSize - 1 > BlockSize
        /\ FollowStep([flink EXCEPT !.pc = IF fault THEN "oops" ELSE "broken",
                                    !.used = Append(@, "memcpy")])

\* lines 1044-1048: cstr.name[0] == 0 && cstr.len == 0.  With a length of 0
\* cstr.name is what kmalloc(0) returned, not a buffer: the read of its
\* first byte faults, or yields a byte that is 0 or is not
follow_link_broken ==
    /\ flink.pc = "broken"
    /\ \E byte \in {"fault", "zero", "nonzero"} :
        /\ flink.len # 0 =>
               byte = (IF flink.first THEN "zero" ELSE "nonzero")
        /\ FollowStep([flink EXCEPT
                          !.pc = IF byte = "fault" THEN "oops"
                                 ELSE IF byte = "zero" /\ flink.len = 0
                                 THEN "ret" ELSE "check",
                          !.res = IF byte = "zero" /\ flink.len = 0
                                  THEN "ENOENT" ELSE @,
                          !.used = Append(@, "broken_test")])

\* lines 1050-1055: the container must fit the block
follow_link_check ==
    /\ flink.pc = "check"
    /\ IF flink.len + SymlinkDataSize - 1 > BlockSize
       THEN FollowStep([flink EXCEPT !.pc = "ret", !.res = "EIO",
                                     !.used = Append(@, "check")])
       ELSE FollowStep([flink EXCEPT !.pc = "decrypt",
                                     !.used = Append(@, "check")])

\* lines 1056-1076: the plaintext buffer is allocated and the cipher run
follow_link_decrypt ==
    /\ flink.pc = "decrypt"
    /\ \E out \in {"0", "ENOMEM", "EIO"} :
        FollowStep([flink EXCEPT !.pc = "ret", !.res = out,
                                 !.used = Append(@, "cipher")])

\* ------------------------------------------------------------ the system

InitFs ==
    /\ i_mode = [i \in Ino |-> IF i = RootIno THEN "dir" ELSE "none"]
    /\ i_nlink = [i \in Ino |-> IF i = RootIno THEN 2 ELSE 0]
    /\ dentries = [i \in Ino |-> {}]
    /\ dotdot = [i \in Ino |-> IF i = RootIno THEN RootIno ELSE NoIno]
    /\ nid = [i \in Ino |-> IF i = RootIno THEN "done" ELSE "free"]
    /\ orphans = {}
    /\ n_orphans = 0
    /\ visible = {RootIno}
    /\ i_name = [i \in Ino |-> NoName]
    /\ enc_name = {}
    /\ i_crypt = [i \in Ino |-> "none"]
    /\ inline_dots = {}
    /\ dot_entries = [i \in Ino |-> <<>>]
    /\ cp_rwsem = "none"
    /\ pc = [t \in Tasks |-> "idle"]
    /\ op = [t \in Tasks |-> NoOp]
    /\ ncalls = 0
    /\ F2FS_LINK_MAX \in LinkCeilings

Init ==
    /\ InitFs
    /\ tasks = {"t1"}
    /\ dirsync = {}
    /\ dcmp = NoCmp
    /\ dhash = NoHash
    /\ flink = NoLink

Next ==
    \E t \in Tasks :
        \/ TmpfileCall(t)
        \/ TmpfileLink(t)
        \/ TmpfileDone(t)
        \/ RenameCall(t)
        \/ RenameFind(t)
        \/ RenameTarget(t)
        \/ RenameCommit(t)
        \/ RenameFixup(t)
        \/ ExchangeCall(t)
        \/ ExchangeFind(t)
        \/ ExchangeCommit(t)
        \/ CreateCall(t)
        \/ MkdirCall(t)
        \/ LinkCall(t)
        \/ UnlinkCall(t)
        \/ RmdirCall(t)
        \/ NewInode(t)
        \/ f2fs_lock_op(t)
        \/ CreateAddLink(t)
        \/ CreateDone(t)
        \/ MkdirAddLink(t)
        \/ MkdirDone(t)
        \/ LinkAddLink(t)
        \/ Rmdir(t)
        \/ UnlinkFind(t)
        \/ UnlinkDelete(t)
        \/ SymlinkCall(t)
        \/ SymlinkAddLink(t)
        \/ SymlinkStore(t)
        \/ MknodCall(t)
        \/ MknodAddLink(t)
        \/ MknodDone(t)
        \/ Return(t)

Spec == Init /\ [][Next]_vars

\* ------------------------------------------------ concurrent creation

\* two tasks issuing f2fs_create concurrently
InitConc ==
    /\ InitFs
    /\ tasks = Tasks
    /\ dirsync = {}
    /\ dcmp = NoCmp
    /\ dhash = NoHash
    /\ flink = NoLink

NextConc ==
    \E t \in Tasks :
        \/ CreateCall(t)
        \/ NewInode(t)
        \/ f2fs_lock_op(t)
        \/ CreateAddLink(t)
        \/ CreateDone(t)
        \/ Return(t)

SpecConc == InitConc /\ [][NextConc]_vars

\* ------------------------------------------------- dot-entry recovery

\* a directory as an image builder leaves it: FI_INLINE_DOTS set, no explicit
\* "." and "..", reachable as entry d of the root
InlineDotsIno == CHOOSE i \in Ino : i # RootIno /\ \A j \in Ino \ {RootIno} : i <= j
InlineDotsName == CHOOSE n \in Names : \A m \in Names : n <= m

InitInlineDots ==
    /\ i_mode = [i \in Ino |-> IF i \in {RootIno, InlineDotsIno}
                                THEN "dir" ELSE "none"]
    /\ i_nlink = [i \in Ino |-> IF i = RootIno THEN 3
                                 ELSE IF i = InlineDotsIno THEN 2 ELSE 0]
    /\ dentries = [i \in Ino |-> IF i = RootIno
                                  THEN {<<InlineDotsName, InlineDotsIno>>}
                                  ELSE {}]
    /\ dotdot = [i \in Ino |-> IF i = RootIno THEN RootIno ELSE NoIno]
    /\ nid = [i \in Ino |-> IF i \in {RootIno, InlineDotsIno}
                             THEN "done" ELSE "free"]
    /\ orphans = {}
    /\ n_orphans = 0
    /\ visible = {RootIno}
    /\ i_name = [i \in Ino |-> IF i = InlineDotsIno THEN InlineDotsName
                                ELSE NoName]
    /\ enc_name = {}
    /\ i_crypt = [i \in Ino |-> "none"]
    /\ inline_dots = {InlineDotsIno}
    /\ dot_entries = [i \in Ino |-> <<>>]
    /\ cp_rwsem = "none"
    /\ pc = [t \in Tasks |-> "idle"]
    /\ op = [t \in Tasks |-> NoOp]
    /\ ncalls = 0
    /\ F2FS_LINK_MAX \in LinkCeilings
    /\ dirsync = {}
    /\ dcmp = NoCmp
    /\ dhash = NoHash
    /\ flink = NoLink

\* lookups by two tasks in that image
InitDots ==
    /\ InitInlineDots
    /\ tasks = Tasks

NextDots ==
    \E t \in Tasks :
        \/ LookupCall(t)
        \/ f2fs_lock_op(t)
        \/ RecoverDot(t)
        \/ RecoverDotDot(t)
        \/ RecoverOut(t)
        \/ Return(t)

SpecDots == InitDots /\ [][NextDots]_vars

\* every operation, in a fresh filesystem or in that image
InitOps ==
    \/ Init
    \/ InitInlineDots /\ tasks = {"t1"}

NextOps ==
    \/ Next
    \/ \E t \in Tasks :
        \/ LookupCall(t)
        \/ RecoverDot(t)
        \/ RecoverDotDot(t)
        \/ RecoverOut(t)

SpecOps == InitOps /\ [][NextOps]_vars

\* ------------------------------------------------------ name comparison

\* f2fs_d_compare called with every pair of names
InitCmp ==
    /\ InitFs
    /\ tasks = {}
    /\ dirsync = {}
    /\ \E name \in CmpNames, str \in CmpNames :
        dcmp = [NoCmp EXCEPT !.pc = "strip", !.name = name, !.str = str]
    /\ dhash = NoHash
    /\ flink = NoLink

NextCmp ==
    \/ f2fs_d_compare_strip
    \/ f2fs_d_compare_ret

SpecCmp == InitCmp /\ [][NextCmp]_vars

\* f2fs_d_hash of both names of every f2fs_d_compare
NextHash ==
    \/ f2fs_d_hash_call
    \/ f2fs_d_hash_strip
    \/ f2fs_d_hash_loop
    \/ f2fs_d_hash_end
    \/ f2fs_d_compare_strip
    \/ f2fs_d_compare_ret

SpecHash == InitCmp /\ [][NextHash]_vars

\* ------------------------------------------- encrypted symlink decoding

\* f2fs_encrypted_follow_link called on a symlink whose first block stores
\* any length
InitLink ==
    /\ InitFs
    /\ tasks = {}
    /\ dirsync = {}
    /\ dcmp = NoCmp
    /\ dhash = NoHash
    /\ \E len \in 0..MaxStoredLen, first \in BOOLEAN :
        flink = [NoLink EXCEPT !.pc = "read", !.len = len, !.first = first]

NextLink ==
    \/ follow_link_read
    \/ follow_link_kmalloc
    \/ follow_link_memcpy
    \/ follow_link_broken
    \/ follow_link_check
    \/ follow_link_decrypt

SpecLink == InitLink /\ [][NextLink]_vars

\* ------------------------------------------------- encrypted directories

\* the encryption policies of an image
Policies == {"p1", "p2"}

\* an image whose unencrypted root holds two directories, the first
\* encrypted, the second encrypted under that policy, another or none, and a
\* regular file created in the first (lines 131-133: under its policy)
InitPol ==
    LET PolDirA == CHOOSE i \in Ino \ {RootIno} : \A j \in Ino \ {RootIno} : i <= j
        PolDirB == CHOOSE i \in Ino \ {RootIno, PolDirA} :
                       \A j \in Ino \ {RootIno, PolDirA} : i <= j
        PolFile == CHOOSE i \in Ino \ {RootIno, PolDirA, PolDirB} :
                       \A j \in Ino \ {RootIno, PolDirA, PolDirB} : i <= j
        PolNameA == CHOOSE n \in Names : \A m \in Names : n <= m
        PolNameB == CHOOSE n \in Names \ {PolNameA} :
                        \A m \in Names \ {PolNameA} : n <= m
    IN
    \E polA \in {CHOOSE p \in Policies : TRUE},
       polB \in Policies \cup {"none"} :
        /\ i_mode = [i \in Ino |-> IF i \in {RootIno, PolDirA, PolDirB} THEN "dir"
                                    ELSE IF i = PolFile THEN "reg" ELSE "none"]
        /\ i_nlink = [i \in Ino |-> IF i = RootIno THEN 4
                                     ELSE IF i \in {PolDirA, PolDirB} THEN 2
                                     ELSE IF i = PolFile THEN 1 ELSE 0]
        /\ dentries = [i \in Ino |->
                          IF i = RootIno
                          THEN {<<PolNameA, PolDirA>>, <<PolNameB, PolDirB>>}
                          ELSE IF i = PolDirA THEN {<<PolNameA, PolFile>>}
                          ELSE {}]
        /\ dotdot = [i \in Ino |-> IF i \in {RootIno, PolDirA, PolDirB}
                                    THEN RootIno ELSE NoIno]
        /\ nid = [i \in Ino |-> IF i \in {RootIno, PolDirA, PolDirB, PolFile}
                                 THEN "done" ELSE "free"]
        /\ orphans = {}
        /\ n_orphans = 0
        /\ visible = {RootIno}
        /\ i_name = [i \in Ino |-> IF i \in {PolDirA, PolFile} THEN PolNameA
                                    ELSE IF i = PolDirB THEN PolNameB
                                    ELSE NoName]
        /\ enc_name = {}
        /\ i_crypt = [i \in Ino |-> IF i = PolDirA THEN polA
                                     ELSE IF i = PolDirB THEN polB
                                     ELSE IF i = PolFile THEN polA
                                     ELSE "none"]
        /\ inline_dots = {}
        /\ dot_entries = [i \in Ino |-> <<>>]
        /\ cp_rwsem = "none"
        /\ pc = [t \in Tasks |-> "idle"]
        /\ op = [t \in Tasks |-> NoOp]
        /\ ncalls = 0
        /\ F2FS_LINK_MAX \in {c \in LinkCeilings : c >= i_nlink[RootIno]}
        /\ dirsync = {}
        /\ tasks = {"t1"}
        /\ dcmp = NoCmp
        /\ dhash = NoHash
        /\ flink = NoLink

\* create, mkdir, link, rename and cross-rename in that image
NextPol ==
    \E t \in Tasks :
        \/ CreateCall(t)
        \/ MkdirCall(t)
        \/ LinkCall(t)
        \/ RenameCall(t)
        \/ ExchangeCall(t)
        \/ NewInode(t)
        \/ f2fs_lock_op(t)
        \/ CreateAddLink(t)
        \/ CreateDone(t)
        \/ MkdirAddLink(t)
        \/ MkdirDone(t)
        \/ LinkAddLink(t)
        \/ RenameFind(t)
        \/ TmpfileLink(t)
        \/ TmpfileDone(t)
        \/ RenameTarget(t)
        \/ RenameCommit(t)
        \/ RenameFixup(t)
        \/ ExchangeFind(t)
        \/ ExchangeCommit(t)
        \/ Return(t)

SpecPol == InitPol /\ [][NextPol]_vars

\* ---------------------------------------------- synchronous directories

\* the directories that are synchronous in a run: the root alone, or every
\* directory below it
DirSyncSets == {{RootIno}, Ino \ {RootIno}}

InitSync ==
    /\ InitFs
    /\ tasks = {"t1"}
    /\ dirsync \in DirSyncSets
    /\ dcmp = NoCmp
    /\ dhash = NoHash
    /\ flink = NoLink

\* the operations that sync a synchronous directory
NextSync ==
    \E t \in Tasks :
        \/ CreateCall(t)
        \/ LinkCall(t)
        \/ MkdirCall(t)
        \/ MknodCall(t)
        \/ SymlinkCall(t)
        \/ UnlinkCall(t)
        \/ RenameCall(t)
        \/ ExchangeCall(t)
        \/ NewInode(t)
        \/ f2fs_lock_op(t)
        \/ CreateAddLink(t)
        \/ CreateDone(t)
        \/ LinkAddLink(t)
        \/ MkdirAddLink(t)
        \/ MkdirDone(t)
        \/ MknodAddLink(t)
        \/ MknodDone(t)
        \/ SymlinkAddLink(t)
        \/ SymlinkStore(t)
        \/ UnlinkFind(t)
        \/ UnlinkDelete(t)
        \/ RenameFind(t)
        \/ TmpfileLink(t)
        \/ TmpfileDone(t)
        \/ RenameTarget(t)
        \/ RenameCommit(t)
        \/ RenameFixup(t)
        \/ ExchangeFind(t)
        \/ ExchangeCommit(t)
        \/ Return(t)

SpecSync == InitSync /\ [][NextSync]_vars

\* ------------------------------------------------------------ properties

\* task t is about to return from a call of this kind
Ret(t, kind) == t \in tasks /\ pc[t] = "ret" /\ op[t].kind = kind

\* C1: a create that returns success leaves exactly one entry named n in D,
\* pointing at a freshly allocated inode of link count 1 that a lookup of n
\* in D finds and whose identifier is finalized with the allocator; a create
\* that returns an error leaves no entry named n and never makes the inode
\* visible.
C1_CreateContract ==
    \A t \in tasks :
        op[t].kind = "create" =>
            LET o == op[t]
            IN  /\ (pc[t] = "ret" /\ o.err = "0") =>
                    /\ EntriesNamed(Cur, o.dir, o.name) = {<<o.name, o.inode>>}
                    /\ f2fs_inode_by_name(Cur, o.dir, o.name) = o.inode
                    /\ o.pre.i_mode[o.inode] = "none"
                    /\ \A d \in Ino : \A e \in o.pre.dentries[d] : e[2] # o.inode
                    /\ i_nlink[o.inode] = 1
                    /\ nid[o.inode] = "done"
                /\ (pc[t] = "ret" /\ o.err # "0") =>
                    EntriesNamed(Cur, o.dir, o.name) = {}
                /\ ~(pc[t] = "ret" /\ o.err = "0") => o.inode \notin visible

\* a create returned success in a directory that already held another entry
C1_CreateSucceeded ==
    \E t \in tasks :
        /\ Ret(t, "create")
        /\ op[t].err = "0"
        /\ Cardinality(dentries[op[t].dir]) = 2

\* C2: a plain rename onto an existing non-directory target that returns
\* success leaves exactly one entry of the destination name, pointing at the
\* source inode; the source name no longer resolves; the target's link count
\* went down by one and the target is in the orphan registry iff it reached
\* zero.
C2_RenameReplacesFile ==
    \A t \in tasks :
        (/\ Ret(t, "rename")
         /\ op[t].err = "0"
         /\ op[t].new_inode # NoIno
         /\ ~S_ISDIR(Cur, op[t].new_inode)) =>
            LET o == op[t]
                T == o.new_inode
            IN  /\ EntriesNamed(Cur, o.new_dir, o.new_name) = {<<o.new_name, o.old_inode>>}
                /\ f2fs_inode_by_name(Cur, o.dir, o.name) = NoIno
                /\ i_nlink[T] = o.pre.i_nlink[T] - 1
                /\ T \in orphans <=> i_nlink[T] = 0

\* the exchange moves exactly one directory between two different parents
OneDirCrosses(o) ==
    /\ o.dir # o.new_dir
    /\ S_ISDIR(o.pre, o.old_inode) # S_ISDIR(o.pre, o.new_inode)

\* C3: after a successful cross-rename each name resolves to the inode the
\* other resolved to, no entry was added or removed, the orphan registry is
\* as before, and the parents' link counts changed only when exactly one of
\* the two is a directory and the parents differ: then the parent that lost
\* the directory has one link less and the parent that gained it one more.
C3_CrossRename ==
    \A t \in tasks :
        (Ret(t, "exchange") /\ op[t].err = "0") =>
            LET o == op[t]
                loser == IF S_ISDIR(o.pre, o.old_inode) THEN o.dir ELSE o.new_dir
                gainer == IF S_ISDIR(o.pre, o.old_inode) THEN o.new_dir ELSE o.dir
            IN  /\ f2fs_inode_by_name(Cur, o.dir, o.name)
                     = f2fs_inode_by_name(o.pre, o.new_dir, o.new_name)
                /\ f2fs_inode_by_name(Cur, o.new_dir, o.new_name)
                     = f2fs_inode_by_name(o.pre, o.dir, o.name)
                /\ \A d \in Ino :
                    /\ Cardinality(dentries[d]) = Cardinality(o.pre.dentries[d])
                    /\ {e[1] : e \in dentries[d]} = {e[1] : e \in o.pre.dentries[d]}
                    /\ \A e \in o.pre.dentries[d] :
                         <<d, e[1]>> \notin {<<o.dir, o.name>>, <<o.new_dir, o.new_name>>}
                            => e \in dentries[d]
                /\ orphans = o.pre.orphans
                /\ n_orphans = o.pre.n_orphans
                /\ \A i \in Ino :
                     i_nlink[i] = o.pre.i_nlink[i]
                                  + (IF OneDirCrosses(o) /\ i = gainer THEN 1 ELSE 0)
                                  - (IF OneDirCrosses(o) /\ i = loser THEN 1 ELSE 0)

\* a cross-rename that moved one directory to another parent returned success
C3_OneDirectoryExchanged ==
    \E t \in tasks :
        /\ Ret(t, "exchange")
        /\ op[t].err = "0"
        /\ OneDirCrosses(op[t])

\* the call renames a directory onto an existing non-empty directory
OntoNonEmptyDir(o) ==
    /\ o.kind = "rename"
    /\ o.new_inode # NoIno
    /\ S_ISDIR(o.pre, o.old_inode)
    /\ S_ISDIR(o.pre, o.new_inode)
    /\ ~f2fs_empty_dir(o.pre, o.new_inode)

\* the namespace is as the call found it: all entries, `..` entries and the
\* link counts of the inodes that existed
AsBefore(o) ==
    /\ dentries = o.pre.dentries
    /\ dotdot = o.pre.dotdot
    /\ \A i \in Ino : o.pre.i_mode[i] # "none" => i_nlink[i] = o.pre.i_nlink[i]

C5_Rmdir ==
    \A t \in tasks :
        Ret(t, "rmdir") =>
            LET o == op[t]
            IN  IF f2fs_empty_dir(o.pre, o.inode)
                THEN /\ o.holds = 1
                     /\ \/ /\ o.err = "0"
                           /\ Cur = f2fs_delete_entry(acquire_orphan_inode(o.pre), o.dir,
                                                      <<o.name, o.inode>>, o.inode)
                        \/ /\ o.err = "ENOSPC"
                           /\ Cur = o.pre
                ELSE /\ o.err = "ENOTEMPTY"
                     /\ o.holds = 0
                     /\ o.mut = {}
                     /\ Cur = o.pre

\* rmdir of a non-empty directory was refused
C5_NonEmptyRefused ==
    \E t \in tasks :
        /\ Ret(t, "rmdir")
        /\ ~f2fs_empty_dir(op[t].pre, op[t].inode)
        /\ op[t].err = "ENOTEMPTY"

\* C6: two concurrent creates of different names in one directory that both
\* return success leave both entries in the directory, each pointing at its
\* own inode.
C6_BothEntriesPresent ==
    \A t, u \in tasks :
        (/\ t # u
         /\ Ret(t, "create") /\ op[t].err = "0"
         /\ Ret(u, "create") /\ op[u].err = "0"
         /\ op[t].dir = op[u].dir
         /\ op[t].name # op[u].name) =>
            /\ EntriesNamed(Cur, op[t].dir, op[t].name) = {<<op[t].name, op[t].inode>>}
            /\ EntriesNamed(Cur, op[u].dir, op[u].name) = {<<op[u].name, op[u].inode>>}
            /\ op[t].inode # op[u].inode

\* two creates that overlapped in time (neither started from the other's
\* result) both returned success in the same directory
C6_TwoCreatesOverlapped ==
    \E t, u \in tasks :
        /\ t # u
        /\ Ret(t, "create") /\ op[t].err = "0"
        /\ Ret(u, "create") /\ op[u].err = "0"
        /\ op[t].dir = op[u].dir
        /\ op[t].pre.dentries = op[u].pre.dentries

\* C7 as stated: every call changes the namespace in at most one hold of the
\* ordering lock and never outside a hold, whiteout creation and the
\* decrement of the whiteout's link count included.
C7_OneHold ==
    \A t \in tasks :
        /\ Cardinality(op[t].mut) <= 1
        /\ \A m \in op[t].mut : m[2] = "held"

\* C7, amended: every call changes entries, link counts and the orphan
\* registry within one hold of the ordering lock, except around temp-file
\* creation: the new temp file or whiteout loses its link after that hold
\* was released, and a rename with RENAME_WHITEOUT registers its whiteout in
\* a hold of its own before the hold in which the rename is committed.
C7_HoldsOfTheLock ==
    \A t \in tasks :
        LET o == op[t]
            held == {m \in o.mut : m[2] = "held"}
            withWhiteout == o.kind = "rename" /\ "WHITEOUT" \in o.flags
        IN  /\ o.mut \ held \subseteq {<<1, "tmpfile_done">>}
            /\ o.mut # held => o.kind = "tmpfile" \/ withWhiteout
            /\ IF withWhiteout
               THEN held \subseteq {<<1, "held">>, <<2, "held">>}
               ELSE held \subseteq {<<1, "held">>}
            /\ (withWhiteout /\ <<2, "held">> \in held) => o.whiteout # NoIno

\* a rename with RENAME_WHITEOUT returned success: whiteout registered in
\* the first hold, unlinked outside, rename committed in the second
C7_WhiteoutRenameDone ==
    \E t \in tasks :
        /\ Ret(t, "rename")
        /\ op[t].err = "0"
        /\ op[t].mut = {<<1, "held">>, <<1, "tmpfile_done">>, <<2, "held">>}

\* C8: whenever the ordering lock is free, the link count of every directory
\* in the tree is 2 plus the number of its child directories.
C8_DirLinkCount ==
    cp_rwsem = "none" =>
        \A d \in Ino :
            LiveDir(Cur, d) =>
                i_nlink[d] = 2 + Cardinality({e \in dentries[d] : S_ISDIR(Cur, e[2])})

\* C9: a rename that returns success has committed (the destination entry
\* points at the source inode and the source entry is gone), and a rename in
\* which a step failed returns an error.
C9_RenameResult ==
    \A t \in tasks :
        Ret(t, "rename") =>
            LET o == op[t]
            IN  /\ o.err = "0" =>
                    /\ <<o.new_name, o.old_inode>> \in dentries[o.new_dir]
                    /\ <<o.name, o.old_inode>> \notin dentries[o.dir]
                /\ o.fault # "none" => o.err # "0"

\* C10: a rename that returns an error has left the source and destination
\* entries, the link counts of source, target and both parents, and the
\* target's orphan membership as they were before the call.
C10_RenameErrorUnwound ==
    \A t \in tasks :
        (Ret(t, "rename") /\ op[t].err # "0") =>
            LET o == op[t]
                touched == {o.old_inode, o.new_inode, o.dir, o.new_dir} \ {NoIno}
            IN  /\ EntriesNamed(Cur, o.dir, o.name) = EntriesNamed(o.pre, o.dir, o.name)
                /\ EntriesNamed(Cur, o.new_dir, o.new_name)
                     = EntriesNamed(o.pre, o.new_dir, o.new_name)
                /\ \A i \in touched : i_nlink[i] = o.pre.i_nlink[i]
                /\ o.new_inode # NoIno =>
                     (o.new_inode \in orphans <=> o.new_inode \in o.pre.orphans)

\* C11: a symlink that returns an error has left no entry of the requested
\* name in the directory, and its inode has not been made visible.
C11_SymlinkErrorUnwound ==
    \A t \in tasks :
        (Ret(t, "symlink") /\ op[t].err # "0") =>
            /\ EntriesNamed(Cur, op[t].dir, op[t].name) = {}
            /\ op[t].inode \notin visible

\* C12: unlink of a name without an entry returns not-found without taking
\* the ordering lock; unlink whose orphan-slot reservation fails returns that
\* error with the entry present, the link count unchanged, no slot reserved
\* and the lock released; the entry is removed only with a slot reserved and
\* the lock held.
C12_Unlink ==
    \A t \in tasks :
        op[t].kind = "unlink" =>
            LET o == op[t]
                gone == <<o.name, o.inode>> \notin dentries[o.dir]
            IN  /\ (pc[t] = "ret" /\ EntriesNamed(o.pre, o.dir, o.name) = {}) =>
                    /\ o.err = "ENOENT"
                    /\ o.holds = 0
                    /\ Cur = o.pre
                /\ (pc[t] = "ret" /\ o.fault = "acquire_orphan_inode") =>
                    /\ o.err = "ENOSPC"
                    /\ <<o.name, o.inode>> \in dentries[o.dir]
                    /\ i_nlink[o.inode] = o.pre.i_nlink[o.inode]
                    /\ n_orphans = o.pre.n_orphans
                    /\ Cur = o.pre
                    /\ cp_rwsem # t
                /\ (EntriesNamed(o.pre, o.dir, o.name) # {} /\ gone) =>
                    /\ pc[t] = "ret"
                    /\ o.err = "0"
                    /\ o.mut = {<<1, "held">>}
                    /\ n_orphans = o.pre.n_orphans
                                    + (IF o.inode \in orphans THEN 1 ELSE 0)

\* an unlink found its entry and failed to reserve an orphan slot
C12_ReservationFailed ==
    \E t \in tasks :
        /\ Ret(t, "unlink")
        /\ op[t].fault = "acquire_orphan_inode"
        /\ EntriesNamed(Cur, op[t].dir, op[t].name) # {}

\* a name without its trailing dots: the longest prefix that does not end
\* in '.'
StrippedName(s) ==
    LET k == CHOOSE n \in 0..Len(s) :
                 /\ n = 0 \/ s[n] # Dot
                 /\ \A j \in (n + 1)..Len(s) : s[j] = Dot
    IN  SubSeq(s, 1, k)

\* byte-wise equal ignoring case
EqualIgnoringCase(a, b) ==
    /\ Len(a) = Len(b)
    /\ \A i \in 1..Len(a) :
        \/ a[i] = b[i]
        \/ \E u \in 65..90 : {a[i], b[i]} = {u, u + 32}

\* C13: the comparison reports two names equal exactly when their remainders
\* after removing every trailing '.' have the same length and are byte-wise
\* equal ignoring case; "FOO", "foo", "foo." and "foo.." are all equal.
C13_CompareNames ==
    dcmp.pc = "ret" =>
        /\ dcmp.ret = 0 <=> EqualIgnoringCase(StrippedName(dcmp.name),
                                              StrippedName(dcmp.str))
        /\ {dcmp.name, dcmp.str}
               \subseteq {NAME_FOO, name_foo, name_foo_dot, name_foo_dotdot}
           => dcmp.ret = 0

\* "FOO" was compared with "foo.." and found equal
C13_FooEqualsFooDotDot ==
    /\ dcmp.pc = "ret"
    /\ dcmp.name = NAME_FOO
    /\ dcmp.str = name_foo_dotdot
    /\ dcmp.ret = 0

\* the parent whose link count an exchange of one directory increments
GainingParent(o) ==
    IF S_ISDIR(o.pre, o.old_inode) THEN o.new_dir ELSE o.dir

\* C14: a cross-rename between two directories in which exactly one exchanged
\* inode is a directory fails with too-many-links, without a hold of the lock
\* and with no state change, whenever the parent that gains a link is at the
\* ceiling; no directory's link count exceeds the ceiling after a successful
\* cross-rename.
C14_ExchangeLinkCeiling ==
    \A t \in tasks :
        Ret(t, "exchange") =>
            LET o == op[t]
            IN  /\ (/\ OneDirCrosses(o)
                    /\ o.pre.i_nlink[GainingParent(o)] >= F2FS_LINK_MAX) =>
                        /\ o.err = "EMLINK"
                        /\ o.holds = 0
                        /\ Cur = o.pre
                /\ o.err = "0" =>
                    \A d \in Ino : S_ISDIR(Cur, d) => i_nlink[d] <= F2FS_LINK_MAX

\* positions of the explicit entries of that name in a directory
DotEntriesNamed(d, name) ==
    {i \in 1..Len(dot_entries[d]) : dot_entries[d][i][1] = name}

\* C18: whatever lookups trigger dot-entry recovery on an inline-dots
\* directory, concurrently or one after another, the directory has at most
\* one `.` entry, referring to itself, and at most one `..` entry, referring
\* to the parent id passed in; the flag is cleared only where both exist; a
\* recovery in which an insertion failed returns that error, the lock
\* released, with the flag still set.
C18_DotRecovery ==
    /\ [](LET d == InlineDotsIno
          IN  /\ Cardinality(DotEntriesNamed(d, ".")) <= 1
              /\ Cardinality(DotEntriesNamed(d, "..")) <= 1
              /\ \A i \in DotEntriesNamed(d, ".") : dot_entries[d][i][2] = d
              /\ \A i \in DotEntriesNamed(d, "..") :
                    \E e \in dentries[dot_entries[d][i][2]] : e[2] = d
              /\ d \notin inline_dots =>
                    /\ DotEntriesNamed(d, ".") # {}
                    /\ DotEntriesNamed(d, "..") # {})
    /\ [][\A t \in Tasks :
            (pc[t] = "recover_out" /\ pc'[t] = "ret"
                /\ op[t].fault \in {"add_dot", "add_dotdot"}) =>
                    /\ op'[t].err = "ENOSPC"
                    /\ op[t].inode \in inline_dots'
                    /\ cp_rwsem' # t]_vars

\* two lookups both saw the flag; one recovered both entries and returned,
\* the other found them under the lock and inserted nothing
C18_SecondRecoveryFoundBoth ==
    \E t \in tasks, u \in tasks :
        /\ t # u
        /\ Ret(t, "lookup") /\ op[t].err = "0" /\ op[t].holds = 1
        /\ pc[u] = "recover_out" /\ op[u].err = "0"
        /\ op[u].pre.dot_entries[op[u].inode] = <<>>
        /\ Len(dot_entries[op[u].inode]) = 2

\* C15: in every operation, on every path, the calling task owns no hold of
\* the ordering lock where it is about to take it (so it owns 0 or 1, never
\* taking the lock it holds) and none when it has returned.
C15_LockHolds ==
    \A t \in Tasks :
        /\ pc[t] \in DOMAIN AfterLock \cup {"new_inode"} => cp_rwsem # t
        /\ pc[t] \in {"idle", "ret"} => cp_rwsem # t
        /\ cp_rwsem = t => op[t].holds >= 1

\* a dot-entry recovery took the lock, failed to insert `..` and returned
C15_FailedRecoveryReturned ==
    \E t \in tasks :
        /\ Ret(t, "lookup")
        /\ op[t].fault = "add_dotdot"
        /\ op[t].holds = 1
        /\ cp_rwsem = "none"

\* C16: when the first name-metadata retarget of a cross-rename succeeded and
\* the second failed, the call returns the error of the second, the name
\* recorded for the source inode and its encrypted-name flag are what they
\* were before the call, and both entries and both directories' link counts
\* are unchanged.
C16_ExchangeUndone ==
    \A t \in tasks :
        (Ret(t, "exchange") /\ op[t].fault = "update_dent_inode_2") =>
            LET o == op[t]
            IN  /\ o.err = "EIO"
                /\ i_name[o.old_inode] = o.pre.i_name[o.old_inode]
                /\ o.old_inode \in enc_name <=> o.old_inode \in o.pre.enc_name
                /\ dentries = o.pre.dentries
                /\ i_nlink[o.dir] = o.pre.i_nlink[o.dir]
                /\ i_nlink[o.new_dir] = o.pre.i_nlink[o.new_dir]

\* C17: after a successful plain rename that moved a directory to a different
\* parent, with or without RENAME_WHITEOUT, the directory's `..` entry refers
\* to the new parent and the old parent's link count is one less.
C17_DotDotFollows ==
    \A t \in tasks :
        (/\ Ret(t, "rename")
         /\ op[t].err = "0"
         /\ op[t].fault = "none"
         /\ S_ISDIR(op[t].pre, op[t].old_inode)
         /\ op[t].dir # op[t].new_dir) =>
            /\ dotdot[op[t].old_inode] = op[t].new_dir
            /\ i_nlink[op[t].dir] = op[t].pre.i_nlink[op[t].dir] - 1

\* C19: decoding an encrypted-symlink container checks the stored length
\* against the block size before using it for anything else (allocation,
\* copy, broken-symlink test, cipher), and a container whose length plus
\* header exceeds the block size always yields the structural-corruption
\* error.
C19_LengthCheckedFirst ==
    /\ \A i \in 1..Len(flink.used) :
          flink.used[i] # "check" =>
              \E j \in 1..(i - 1) : flink.used[j] = "check"
    /\ (/\ flink.cpage
        /\ flink.len + SymlinkDataSize - 1 > BlockSize) =>
            /\ flink.pc # "oops"
            /\ flink.pc = "ret" => flink.res = "EIO"

\* orphan slots reserved and not yet consumed: neither holding an inode id
\* nor given back
UnconsumedSlots == n_orphans - Cardinality(orphans)

\* C20: every orphan slot that a plain rename or a temp-file or whiteout
\* creation reserves is consumed, by registering an inode id or by release,
\* before the hold of the ordering lock it was reserved in ends: no slot is
\* unconsumed while the lock is free or when the operation has returned, on
\* any path; a failed reservation aborts the operation with the slots and
\* the registry as they were.
C20_OrphanSlots ==
    /\ cp_rwsem = "none" => UnconsumedSlots = 0
    /\ \A t \in tasks :
        op[t].kind \in {"rename", "tmpfile"} =>
            LET o == op[t]
            IN  /\ pc[t] = "ret" => UnconsumedSlots = 0
                /\ UnconsumedSlots \in {0, 1}
                /\ o.fault = "acquire_orphan_inode" =>
                    /\ pc[t] = "ret"
                    /\ o.err = "ENOSPC"
                    /\ orphans = o.pre.orphans
                                  \cup (IF o.whiteout = NoIno THEN {}
                                        ELSE {o.whiteout})
                    /\ n_orphans = Cardinality(orphans)

\* a rename replacing a file that keeps another link returned success: the
\* slot it reserved was released again
C20_SlotReleased ==
    \E t \in tasks :
        /\ Ret(t, "rename")
        /\ op[t].err = "0"
        /\ op[t].fault = "none"
        /\ op[t].new_inode # NoIno
        /\ i_nlink[op[t].new_inode] > 0
        /\ op[t].new_inode \notin orphans

\* no entry of any directory names this inode
Unnamed(i) == \A p \in Ino : \A e \in dentries[p] : e[2] # i

\* C21: once the hold in which a temp file or whiteout was linked has ended,
\* its id is in the orphan registry, put there in that hold; it is there
\* after every successful tmpfile; a whiteout handed to rename has link count
\* zero; the whiteout of a rename that fails is linked under no name.
C21_TempFileOrphaned ==
    \A t \in tasks :
        LET o == op[t]
        IN  /\ pc[t] = "tmpfile_done" =>
                /\ o.inode \in orphans
                /\ o.inode \notin o.pre.orphans
                /\ o.mut = {<<1, "held">>}
            /\ (Ret(t, "tmpfile") /\ o.err = "0") =>
                /\ o.inode \in orphans
                /\ Unnamed(o.inode)
            /\ (/\ o.kind = "rename"
                /\ o.whiteout # NoIno
                /\ pc[t] \in {"rename_target", "rename_lock", "rename_commit",
                               "rename_fixup"}) =>
                /\ o.whiteout \in orphans
                /\ i_nlink[o.whiteout] = 0
                /\ Unnamed(o.whiteout)
            /\ (Ret(t, "rename") /\ o.err # "0" /\ o.whiteout # NoIno) =>
                /\ Unnamed(o.whiteout)
                /\ o.whiteout \in orphans

\* a rename created its whiteout and then failed
C21_RenameFailedAfterWhiteout ==
    \E t \in tasks :
        /\ Ret(t, "rename")
        /\ op[t].err # "0"
        /\ op[t].whiteout # NoIno
        /\ op[t].whiteout \in orphans

\* the operations that name a new inode
CreatingKinds == {"create", "symlink", "mkdir", "mknod", "tmpfile"}

\* C22: in create, symlink, mkdir, mknod and tmpfile the identifier is
\* finalized only after the insertion succeeded and the lock was released,
\* and the inode is visible only after that; a failing allocation returns
\* resource exhaustion, a cache collision a consistency error with the
\* identifier released; in every failure the identifier is never finalized
\* and the inode is never visible nor returned.
C22_FinalizedAfterInsertion ==
    \A t \in tasks :
        op[t].kind \in CreatingKinds =>
            LET o == op[t]
                i == o.inode
            IN  /\ i # NoIno =>
                    /\ nid[i] = "done" =>
                        /\ cp_rwsem # t
                        /\ o.kind # "tmpfile" => <<o.name, i>> \in dentries[o.dir]
                        /\ o.kind = "tmpfile" => i \in orphans
                    /\ i \in visible => nid[i] = "done"
                    /\ (pc[t] = "ret" /\ o.err # "0") =>
                        /\ nid[i] # "done"
                        /\ i \notin visible
                /\ o.fault = "new_inode" =>
                    /\ pc[t] = "ret"
                    /\ o.err \in {"ENOMEM", "ENOSPC", "EINVAL"}
                    /\ i = NoIno
                    /\ nid = o.pre.nid
                    /\ visible = o.pre.visible

\* every entry of an encrypted directory names an inode whose policy is
\* consistent with that of the directory
PolicyConsistent(fs) ==
    \A d \in Ino :
        f2fs_encrypted_inode(fs, d) =>
            \A e \in fs.dentries[d] :
                f2fs_is_child_context_consistent_with_parent(fs, d, e[2])

\* C23: in a namespace that started with every entry of an encrypted
\* directory naming an inode consistent with it, the same holds after any
\* sequence of create, mkdir, link, rename and cross-rename; and a link, a
\* rename across directories or a cross-rename across directories that would
\* pair a directory with an inode inconsistent with it returns EPERM with
\* the namespace as it was.
C23_PolicyPreserved ==
    /\ PolicyConsistent(Cur)
    /\ \A t \in tasks :
        LET o == op[t]
        IN  /\ (/\ Ret(t, "link")
                /\ ~f2fs_is_child_context_consistent_with_parent(o.pre, o.dir,
                                                                 o.inode)) =>
                    o.err = "EPERM" /\ AsBefore(o)
            /\ (/\ Ret(t, "rename")
                /\ o.dir # o.new_dir
                /\ ~f2fs_is_child_context_consistent_with_parent(o.pre, o.new_dir,
                                                                 o.old_inode)) =>
                    o.err = "EPERM" /\ AsBefore(o)
            /\ (/\ Ret(t, "exchange")
                /\ o.dir # o.new_dir
                /\ \/ ~f2fs_is_child_context_consistent_with_parent(
                            o.pre, o.new_dir, o.old_inode)
                   \/ ~f2fs_is_child_context_consistent_with_parent(
                            o.pre, o.dir, o.new_inode)) =>
                    o.err = "EPERM" /\ AsBefore(o)

\* the operations whose directory sync lies on the success path only
SyncOnSuccess ==
    {"create", "link", "mkdir", "mknod", "unlink", "rename", "exchange"}

\* C24: in create, link, mkdir, mknod, symlink, unlink, rename and
\* cross-rename a blocking flush (the directory sync, the write-back of a
\* symlink target) is issued only while the caller does not hold the
\* ordering lock; the directory sync of create, link, mkdir, mknod, unlink
\* and the renames is issued on the success path only; and a rename that
\* went down its success path has synced exactly when its old or its new
\* directory is synchronous.
C24_FlushOutsideLock ==
    \A t \in tasks :
        LET o == op[t]
        IN  /\ \A f \in o.flush : ~f[2]
            /\ o.flush # {} => cp_rwsem # t
            /\ (o.kind \in SyncOnSuccess /\ <<"f2fs_sync_fs", FALSE>> \in o.flush) =>
                    /\ pc[t] = "ret"
                    /\ o.err = "0"
                    /\ o.fault = "none"
            /\ (/\ o.kind \in {"rename", "exchange"}
                /\ pc[t] = "ret" /\ o.err = "0" /\ o.fault = "none") =>
                    (<<"f2fs_sync_fs", FALSE>> \in o.flush
                        <=> IS_DIRSYNC(o.dir) \/ IS_DIRSYNC(o.new_dir))
            /\ <<"filemap_write_and_wait_range", FALSE>> \in o.flush =>
                    o.kind = "symlink" /\ o.err = "0"

\* a rename between two directories synced for its new directory alone
C24_RenameSyncedForNewDir ==
    \E t \in tasks :
        /\ Ret(t, "rename")
        /\ op[t].err = "0"
        /\ ~IS_DIRSYNC(op[t].dir)
        /\ IS_DIRSYNC(op[t].new_dir)
        /\ op[t].flush # {}

\* C25: when f2fs_d_compare reports two names equal, f2fs_d_hash gives both
\* the same hash; and the comparison is reflexive, symmetric and transitive
\* over the names of the bounded alphabet.
C25_HashFollowsCompare ==
    (dcmp.pc = "ret" /\ dhash.pc = "ret" /\ Len(dhash.out) = 2) =>
        /\ dcmp.ret = f2fs_d_compare(dcmp.name, dcmp.str)
        /\ dcmp.ret = 0 => dhash.out[1] = dhash.out[2]
        /\ f2fs_d_compare(dcmp.name, dcmp.name) = 0
        /\ f2fs_d_compare(dcmp.str, dcmp.name) = dcmp.ret
        /\ \A c \in CmpNames :
               (dcmp.ret = 0 /\ f2fs_d_compare(dcmp.str, c) = 0) =>
                   f2fs_d_compare(dcmp.name, c) = 0

\* "FOO" and "foo.." compared equal and hashed alike
C25_FooHashedAsFooDotDot ==
    /\ dcmp.pc = "ret"
    /\ dhash.pc = "ret"
    /\ dcmp.name = NAME_FOO
    /\ dcmp.str = name_foo_dotdot
    /\ dcmp.ret = 0
    /\ Len(dhash.out) = 2
    /\ dhash.out[1] = dhash.out[2]

====
